---- MODULE Spec2Model ----
(***************************************************************************)
(* Change detection, metadata persistence and the cached pipeline of the   *)
(* documentation agent (core/change_detector.py, core/metadata_store.py,   *)
(* core/hasher.py, models/metadata.py, models/parsed_file.py,              *)
(* models/change_report.py, main_v2.py).                                   *)
(*                                                                         *)
(* Optional values (Python's None / a value) are sequences of length 0 or  *)
(* 1: None is << >>, a present value x is << x >>.                          *)
(***************************************************************************)
EXTENDS Integers, Sequences, FiniteSets, TLC

\* ---------------------------------------------------------------------
\* Bounds
\* ---------------------------------------------------------------------
MaxPaths == 2
MaxContent == 2
MaxPurpose == 2
MaxClock == 0

\* Relative file paths, numbered in their lexicographic order.
Paths == 1..MaxPaths
\* File contents (byte strings), numbered.
Contents == 1..MaxContent
\* What an LLM answer can say about a module.
Purposes == 1..MaxPurpose
ProjectNames == {"demo"}

None == << >>
Some(x) == << x >>

Range(s) == {s[i] : i \in DOMAIN s}

\* Duplicate-free lists over a set: what a directory scan can return.
ListsOver(S) ==
    {s \in UNION {[1..n -> S] : n \in 0..Cardinality(S)} :
        \A i, j \in DOMAIN s : i # j => s[i] # s[j]}

\* The file lists a caller can pass.
FileLists == ListsOver(Paths)

\* ---------------------------------------------------------------------
\* Python built-ins used by the code
\* ---------------------------------------------------------------------
RECURSIVE SortedSeqOf(_)
\* sorted(iterable of distinct paths): ascending list.
SortedSeqOf(S) ==
    IF S = {} THEN << >>
    ELSE LET m == CHOOSE x \in S : \A y \in S : x <= y
         IN  << m >> \o SortedSeqOf(S \ {m})

\* datetime values: seconds and microseconds.
Datetime(sec, usec) == [sec |-> sec, usec |-> usec]

\* datetime.isoformat(): the microsecond part is printed only when non-zero.
isoformat(d) == IF d.usec = 0 THEN << d.sec >> ELSE << d.sec, d.usec >>

\* datetime.fromisoformat(): a missing microsecond part reads as zero.
\* Bug: the string parsed with a format that has no microseconds.
fromisoformat_NoMicroseconds(s) == Datetime(s[1], 0)

fromisoformat(s) == Datetime(s[1], IF Len(s) = 1 THEN 0 ELSE s[2])

\* JSON null.
JNull == [json |-> "null"]

\* Python truthiness of a decoded JSON value: null and the empty object are
\* falsy, every other object is truthy.
Truthy(v) == v # JNull /\ DOMAIN v # {}

\* ---------------------------------------------------------------------
\* models/parsed_file.py, models/metadata.py
\* ---------------------------------------------------------------------
ModuleSummary(file_path, purpose, responsibilities, key_components, dependencies) ==
    [file_path |-> file_path, purpose |-> purpose,
     responsibilities |-> responsibilities,
     key_components |-> key_components, dependencies |-> dependencies]

to_dict(s) ==
    [file_path |-> s.file_path, purpose |-> s.purpose,
     responsibilities |-> s.responsibilities,
     key_components |-> s.key_components,
     dependencies |-> s.dependencies]

\* Bug: purpose read from the wrong key.
from_dict_WrongKey(data) ==
    ModuleSummary(data.file_path, data.file_path, data.responsibilities,
                  data.key_components, data.dependencies)

from_dict(data) ==
    ModuleSummary(data.file_path, data.purpose, data.responsibilities,
                  data.key_components, data.dependencies)

FileMetadata(file_path, hash, last_analyzed, size_bytes, summary) ==
    [file_path |-> file_path, hash |-> hash, last_analyzed |-> last_analyzed,
     size_bytes |-> size_bytes, summary |-> summary]

ProjectMetadata(project_name, project_root, last_updated, fls) ==
    [project_name |-> project_name, project_root |-> project_root,
     last_updated |-> last_updated, files |-> fls]

\* ProjectMetadata.to_json: timestamps become ISO strings, an absent summary
\* becomes null, a present one its dict.
to_json(m) ==
    [project_name |-> m.project_name,
     project_root |-> m.project_root,
     last_updated |-> isoformat(m.last_updated),
     files |-> [fp \in DOMAIN m.files |->
        LET fm == m.files[fp] IN
        [file_path |-> fm.file_path,
         hash |-> fm.hash,
         last_analyzed |-> isoformat(fm.last_analyzed),
         size_bytes |-> fm.size_bytes,
         summary |-> IF fm.summary # None THEN to_dict(fm.summary[1]) ELSE JNull]]]

\* ProjectMetadata.from_json
from_json(data) ==
    ProjectMetadata(
        data.project_name,
        data.project_root,
        fromisoformat(data.last_updated),
        [fp \in DOMAIN data.files |->
            LET fm == data.files[fp] IN
            FileMetadata(fm.file_path, fm.hash, fromisoformat(fm.last_analyzed),
                         fm.size_bytes,
                         IF Truthy(fm.summary) THEN Some(from_dict(fm.summary))
                                               ELSE None)])

\* ---------------------------------------------------------------------
\* models/change_report.py
\* ---------------------------------------------------------------------
ChangeReport(added, modified, deleted, unchanged) ==
    [added_files |-> added, modified_files |-> modified,
     deleted_files |-> deleted, unchanged_files |-> unchanged]

\* Bug: added files forgotten.
has_changes_NoAdded(r) ==
    r.modified_files # << >> \/ r.deleted_files # << >>

\* Bug: unchanged files counted as a change.
has_changes_CountsUnchanged(r) ==
    \/ r.added_files # << >> \/ r.modified_files # << >>
    \/ r.deleted_files # << >> \/ r.unchanged_files # << >>

has_changes(r) ==
    r.added_files # << >> \/ r.modified_files # << >> \/ r.deleted_files # << >>

\* Bug: unchanged files analyzed again.
files_to_analyze_WithUnchanged(r) ==
    r.added_files \o r.modified_files \o r.unchanged_files

files_to_analyze(r) == r.added_files \o r.modified_files

EmptyReport == ChangeReport(<< >>, << >>, << >>, << >>)


\* ---------------------------------------------------------------------
\* State
\* ---------------------------------------------------------------------
VARIABLES
    cwdIsRoot,   \* whether the process's working directory is the project root
    files,       \* files under the project root: path -> optional content
    metaFile,    \* <root>/.docagent/metadata.json: optional JSON document
    last,        \* the call that has just returned and its result (NoCall after
                 \* a step that is not a call)
    lastUpdate,  \* the last update_metadata that completed, while what it
                 \* saved has not been cleared: its arguments and the files
                 \* as they were when it returned
    run,         \* the cached pipeline run in progress (main_v2)
    store,       \* a caller of MetadataStore alone: the ProjectMetadata it
                 \* holds, its last call and what load() returned to it
    disk,        \* what writing the metadata file meets: "ok", "readonly"
                 \* (open fails) or "full" (the write fails half way)
    analysis,    \* the CodeAnalyzer call in progress or just returned
    repo,        \* a directory tree given to the scanners and their results
    extraction,  \* the function definition given to CodeParser and its result
    racers,      \* two processes updating the metadata of one project root
                 \* at the same time
    output       \* output/<project_name>: none, or the two documents a
                 \* generate_all that completed has written there

vars == << cwdIsRoot, files, metaFile, last, lastUpdate, run, store,
           disk, analysis, repo, extraction, racers, output >>

ProjectRoot == "root"

\* Content 1 is text that ast.parse rejects; every other content is valid Python.
BadSyntax == 1
SyntaxOk(c) == c # BadSyntax

\* st_size of a content (two contents can have the same size).
SizeOf(c) == (c + 1) \div 2

\* Clock readings of datetime.now().
Clock == {Datetime(0, u) : u \in 0..MaxClock}

\* ---------------------------------------------------------------------
\* core/hasher.py
\* ---------------------------------------------------------------------
\* SHA-256 of a content: distinct contents have distinct digests.
Sha256(c) == << "sha256", c >>

\* hash_file(file_path): opens the path as given, that is relative to the
\* working directory; None stands for the exception open() raises.  A working
\* directory other than the project root holds no file by these names.
hash_file(file_path) ==
    IF cwdIsRoot /\ files[file_path] # None
    THEN Some(Sha256(files[file_path][1]))
    ELSE None

\* hash_files(file_paths): files that cannot be hashed are left out.
hash_files(file_paths) ==
    [p \in {q \in Range(file_paths) : hash_file(q) # None} |-> hash_file(p)[1]]

\* Path(project_root / file_path).stat().st_size; None stands for the
\* FileNotFoundError of a missing file.
stat_size(file_path) ==
    IF files[file_path] # None THEN Some(SizeOf(files[file_path][1])) ELSE None

\* ---------------------------------------------------------------------
\* core/metadata_store.py
\* ---------------------------------------------------------------------
\* A metadata file that cannot be read or does not parse (cut short, not
\* JSON, a key missing, no permission).
Unreadable == [json |-> "unreadable"]

\* MetadataStore.load(): None when the file does not exist, and None when
\* reading or parsing it raises (except Exception).
load ==
    IF metaFile = None THEN None
    ELSE IF metaFile[1] = Unreadable THEN None
    ELSE Some(from_json(metaFile[1]))

\* Bug: the metadata file removed once it has been read.
AfterLoad_Unlinked == None

\* The metadata file after MetadataStore.load(): exists() and open(..., "r")
\* leave it as it is.
AfterLoad == metaFile

\* MetadataStore.save(metadata): the content of the metadata file afterwards.
\* open(..., "w") fails on a read-only disk and leaves the file as it was;
\* on a full disk the file is truncated and the write fails half way.
save(metadata) ==
    IF disk = "ok" THEN Some(to_json(metadata))
    ELSE IF disk = "readonly" THEN metaFile
    ELSE Some(Unreadable)

\* Bug: the OSError of a failed write not caught.
SaveOutcome_Propagates(d) == IF d = "ok" THEN "returned" ELSE "OSError"

\* How save ends on disk d: its except clause swallows every exception.
SaveOutcome(d) == "returned"

\* ---------------------------------------------------------------------
\* core/change_detector.py
\* ---------------------------------------------------------------------
\* {f: m.hash for f, m in old_metadata.files.items()}
OldHashes(old_metadata) ==
    [f \in DOMAIN old_metadata.files |-> old_metadata.files[f].hash]

\* Bug: every file of the loop appended to modified, whatever its hash.
ModifiedOf_All(both, current_hashes, old_hashes) == both

\* The files of the loop over current_set & old_set appended to modified.
ModifiedOf(both, current_hashes, old_hashes) ==
    {f \in both : current_hashes[f] # old_hashes[f]}

\* Bug: the comparison of the else branch inverted.
UnchangedOf_Inverted(both, current_hashes, old_hashes) ==
    {f \in both : current_hashes[f] # old_hashes[f]}

\* The files of that loop appended to unchanged.
UnchangedOf(both, current_hashes, old_hashes) ==
    {f \in both : ~(current_hashes[f] # old_hashes[f])}

Returned(r) == [outcome |-> "returned", report |-> r]
Raised(e) == [outcome |-> e, report |-> EmptyReport]

detect_changes(current_files) ==
    LET old_metadata == load IN
    IF old_metadata = None
    THEN Returned(ChangeReport(current_files, << >>, << >>, << >>))
    ELSE
      LET current_hashes == hash_files(current_files)
          old_hashes == OldHashes(old_metadata[1])
          current_set == Range(current_files)
          old_set == DOMAIN old_hashes
          added == current_set \ old_set
          deleted == old_set \ current_set
          both == current_set \cap old_set
      IN  IF \E f \in both : f \notin DOMAIN current_hashes
          THEN Raised("KeyError")
          ELSE
            LET modified == ModifiedOf(both, current_hashes, old_hashes)
                unchanged == UnchangedOf(both, current_hashes, old_hashes)
            IN  Returned(ChangeReport(SortedSeqOf(added), SortedSeqOf(modified),
                                      SortedSeqOf(deleted), SortedSeqOf(unchanged)))

get_cached_summary(file_path) ==
    LET metadata == load IN
    IF metadata = None THEN None
    ELSE IF file_path \in DOMAIN metadata[1].files
         THEN metadata[1].files[file_path].summary
         ELSE None

\* summaries.get(file_path)
DictGet(d, k) == IF k \in DOMAIN d THEN Some(d[k]) ELSE None

IndexOf(s, x) == CHOOSE i \in DOMAIN s : s[i] = x

\* Bug: nothing removed.
Prune_KeepAll(fls, current_files) == fls

\* The entries left after "Remove deleted files".
Prune(fls, current_files) ==
    [f \in {g \in DOMAIN fls : g \in current_files} |-> fls[f]]

\* update_metadata from the line after its store.load(), which returned
\* loaded; stamps are the clock readings: stamps[i] for the i-th file, the
\* last one for last_updated.  The result is the outcome and the metadata
\* file afterwards.
update_metadata_loaded(loaded, analyzed_files, summaries, project_name, stamps) ==
    LET metadata == IF loaded # None THEN loaded[1]
                    ELSE ProjectMetadata(project_name, ProjectRoot,
                                         stamps[Len(stamps)], [f \in {} |-> None])
        hashes == hash_files(analyzed_files)
        failing == {i \in DOMAIN analyzed_files :
                       \/ stat_size(analyzed_files[i]) = None
                       \/ analyzed_files[i] \notin DOMAIN hashes}
    IN  IF failing # {}
        THEN LET i == CHOOSE k \in failing : \A j \in failing : k <= j
             IN  [outcome |-> IF stat_size(analyzed_files[i]) = None
                              THEN "FileNotFoundError" ELSE "KeyError",
                  metaFile |-> metaFile]
        ELSE
          LET written ==
                [f \in DOMAIN metadata.files \cup Range(analyzed_files) |->
                    IF f \in Range(analyzed_files)
                    THEN FileMetadata(f, hashes[f],
                                      stamps[IndexOf(analyzed_files, f)],
                                      stat_size(f)[1], DictGet(summaries, f))
                    ELSE metadata.files[f]]
              pruned == Prune(written, Range(analyzed_files))
              updated == [metadata EXCEPT !.files = pruned,
                                          !.last_updated = stamps[Len(stamps)]]
          IN  [outcome |-> SaveOutcome(disk), metaFile |-> save(updated)]

\* update_metadata(analyzed_files, summaries, project_name)
update_metadata(analyzed_files, summaries, project_name, stamps) ==
    update_metadata_loaded(load, analyzed_files, summaries, project_name, stamps)

\* MetadataStore.clear()
clear == None


\* ---------------------------------------------------------------------
\* Calls on one ChangeDetector and the files changing under it
\* ---------------------------------------------------------------------
Call(op, current_files, file_path, outcome, report, summary) ==
    [op |-> op, current_files |-> current_files, file_path |-> file_path,
     outcome |-> outcome, report |-> report, summary |-> summary]

NoCall == Call("none", << >>, None, "returned", EmptyReport, None)

\* A summary as a caller passes it for a path.
SummaryOf(f, purpose) == ModuleSummary(f, purpose, << purpose >>, << >>, << >>)

\* The summaries argument: a dict from some paths to their summaries.
SummaryDicts ==
    UNION {{[f \in D |-> SummaryOf(f, pur[f])] : pur \in [D -> Purposes]} :
              D \in SUBSET Paths}

\* The state of one main_v2.generate_documentation run.  pc is the phase about
\* to execute; i is the index of the running loop; parseLog, analyzeLog,
\* cacheReads, synthCalls and metaWrites record the calls the run has made
\* (cacheReads: the get_cached_summary calls); metaReads counts the times the
\* run has read the metadata file (the store.load() calls); metaBefore is the
\* metadata file as the run found it.
RunState(pc, force, python_files, changes, i, parsed_files, new_summaries, all_summaries, parseLog, analyzeLog, cacheReads, synthCalls, metaReads, metaWrites, metaBefore, ended) ==
    [pc |-> pc, force |-> force, python_files |-> python_files,
     changes |-> changes, i |-> i, parsed_files |-> parsed_files,
     new_summaries |-> new_summaries, all_summaries |-> all_summaries,
     parseLog |-> parseLog, analyzeLog |-> analyzeLog,
     cacheReads |-> cacheReads, synthCalls |-> synthCalls,
     metaReads |-> metaReads, metaWrites |-> metaWrites,
     metaBefore |-> metaBefore, ended |-> ended]

IdleRun ==
    RunState("idle", FALSE, << >>, EmptyReport, 1, << >>, << >>, << >>,
             << >>, << >>, << >>, 0, 0, 0, None, "no")

InitFiles ==
    /\ cwdIsRoot \in BOOLEAN
    /\ files \in [Paths -> {None} \cup {Some(c) : c \in Contents}]
    /\ metaFile = None

NoStore == [held |-> None, op |-> "none", loaded |-> None]

\* No CodeAnalyzer call, no scan and no parameter extraction under way, and a
\* disk that accepts writes.
NoAnalysis ==
    [pc |-> "idle", generation |-> "analyzer", op |-> "none",
     parsed_file |-> [file_path |-> 1, imports |-> << >>,
                      n_classes |-> 0, n_functions |-> 0],
     model |-> "", reply |-> [kind |-> "none", content |-> << >>],
     response |-> << >>,
     result |-> [outcome |-> "none", value |-> [kind |-> "str", s |-> << >>]]]
NoRepo ==
    [pc |-> "idle", above |-> << >>, file |-> << >>,
     python_files |-> << >>, all_files |-> << >>,
     root_node |-> << >>, total_files |-> 0, total_directories |-> 0]
NoExtraction ==
    [pc |-> "idle",
     args |-> [args |-> << >>, defaults |-> << >>, vararg |-> << >>, kwarg |-> << >>],
     parameters |-> << >>]

\* The processes of the race: the two have not started.
Racers == {1, 2}
NoRacer ==
    [pc |-> "idle", analyzed_files |-> << >>, loaded |-> None,
     outcome |-> "none", loadedFirst |-> FALSE, savedLast |-> FALSE]
NoRacers == [r \in Racers |-> NoRacer]

NoRace ==
    /\ racers = NoRacers
    /\ output = None

OthersIdle ==
    /\ disk = "ok"
    /\ analysis = NoAnalysis
    /\ repo = NoRepo
    /\ extraction = NoExtraction
    /\ NoRace

Init ==
    /\ InitFiles
    /\ last = NoCall
    /\ lastUpdate = None
    /\ run = IdleRun
    /\ store = NoStore
    /\ OthersIdle

DetectChangesCall ==
    \E current_files \in FileLists :
        LET res == detect_changes(current_files) IN
        /\ last' = Call("detect_changes", current_files, None,
                        res.outcome, res.report, None)
        /\ metaFile' = AfterLoad
        /\ UNCHANGED << cwdIsRoot, files, lastUpdate, run, store,
                     disk, analysis, repo, extraction,
                     racers, output >>

GetCachedSummaryCall ==
    \E file_path \in Paths :
        /\ last' = Call("get_cached_summary", << >>, Some(file_path),
                        "returned", EmptyReport, get_cached_summary(file_path))
        /\ metaFile' = AfterLoad
        /\ UNCHANGED << cwdIsRoot, files, lastUpdate, run, store,
                     disk, analysis, repo, extraction,
                     racers, output >>

UpdateMetadataCall ==
    \E analyzed_files \in FileLists, summaries \in SummaryDicts,
       project_name \in ProjectNames :
      \E stamps \in [1..(Len(analyzed_files) + 1) -> Clock] :
        LET res == update_metadata(analyzed_files, summaries, project_name, stamps) IN
        /\ metaFile' = res.metaFile
        /\ last' = Call("update_metadata", analyzed_files, None,
                        res.outcome, EmptyReport, None)
        /\ lastUpdate' = IF res.outcome = "returned" /\ disk = "ok"
                          THEN Some([analyzed_files |-> analyzed_files,
                                     summaries |-> summaries, files |-> files])
                          ELSE IF res.metaFile # metaFile THEN None
                          ELSE lastUpdate
        /\ UNCHANGED << cwdIsRoot, files, run, store,
                     disk, analysis, repo, extraction,
                     racers, output >>

ClearCall ==
    /\ metaFile' = clear
    /\ last' = Call("clear", << >>, None, "returned", EmptyReport, None)
    /\ lastUpdate' = None
    /\ UNCHANGED << cwdIsRoot, files, run, store,
                     disk, analysis, repo, extraction,
                     racers, output >>

\* Another program creates or rewrites a file under the project root.
WriteFile ==
    \E p \in Paths, c \in Contents :
        /\ files[p] # Some(c)
        /\ files' = [files EXCEPT ![p] = Some(c)]
        /\ last' = NoCall
        /\ UNCHANGED << cwdIsRoot, metaFile, lastUpdate, run, store,
                     disk, analysis, repo, extraction,
                     racers, output >>

\* Another program deletes a file under the project root.
DeleteFile ==
    \E p \in Paths :
        /\ files[p] # None
        /\ files' = [files EXCEPT ![p] = None]
        /\ last' = NoCall
        /\ UNCHANGED << cwdIsRoot, metaFile, lastUpdate, run, store,
                     disk, analysis, repo, extraction,
                     racers, output >>

Next ==
    \/ DetectChangesCall
    \/ GetCachedSummaryCall
    \/ UpdateMetadataCall
    \/ ClearCall
    \/ WriteFile
    \/ DeleteFile

Spec == Init /\ [][Next]_vars


\* ---------------------------------------------------------------------
\* The same calls with a metadata file and a disk that can fail
\* ---------------------------------------------------------------------
\* Another program damages the metadata file, or its permissions are taken.
DamageMetaFile ==
    /\ metaFile # None
    /\ metaFile # Some(Unreadable)
    /\ metaFile' = Some(Unreadable)
    /\ last' = NoCall
    /\ lastUpdate' = None
    /\ UNCHANGED << cwdIsRoot, files, run, store, disk, analysis, repo, extraction,
                    racers, output >>

\* The disk under .docagent becomes read-only, fills up, or recovers.
DiskChange ==
    /\ \E d \in {"ok", "readonly", "full"} :
         /\ d # disk
         /\ disk' = d
    /\ last' = NoCall
    /\ UNCHANGED << cwdIsRoot, files, metaFile, lastUpdate, run, store,
                    analysis, repo, extraction,
                    racers, output >>

InitFault ==
    /\ cwdIsRoot = TRUE
    /\ files \in [Paths -> {None} \cup {Some(c) : c \in Contents}]
    /\ metaFile = None
    /\ last = NoCall
    /\ lastUpdate = None
    /\ run = IdleRun
    /\ store = NoStore
    /\ OthersIdle

NextFault ==
    \/ DetectChangesCall
    \/ UpdateMetadataCall
    \/ WriteFile
    \/ DamageMetaFile
    \/ DiskChange

SpecFault == InitFault /\ [][NextFault]_vars


\* ---------------------------------------------------------------------
\* main_v2.py: generate_documentation(project_path, project_name, force)
\* ---------------------------------------------------------------------
\* scan_project lists the .py files under the root, in the order the
\* directory walk yields them.
ScanResults == {s \in FileLists : Range(s) = {p \in Paths : files[p] # None}}

\* parse_file(file_path, project_root): None when the file cannot be read or
\* is not valid Python, else the parsed file (its path and the text parsed).
parse_file(file_path) ==
    IF files[file_path] # None /\ SyntaxOk(files[file_path][1])
    THEN Some([file_path |-> file_path, content |-> files[file_path][1]])
    ELSE None

\* {s.file_path: s for s in all_summaries}
SummaryDictOf(all_summaries) ==
    [f \in {all_summaries[k].file_path : k \in DOMAIN all_summaries} |->
        LET k == CHOOSE j \in DOMAIN all_summaries :
                    /\ all_summaries[j].file_path = f
                    /\ \A l \in DOMAIN all_summaries :
                          all_summaries[l].file_path = f => l <= j
        IN  all_summaries[k]]

\* Bug: the cached summaries left out of the merge.
CachedSummaries_Skipped(unchanged_files) == << >>

\* Bug: only the files analyzed in this run handed to update_metadata.
all_files_OnlyAnalyzed(r) == files_to_analyze(r.changes)

\* all_files = python_files: what the run hands to update_metadata.
all_files(r) == r.python_files

RECURSIVE CachedSummaries(_)
\* The merge loop over changes.unchanged_files: the cached summary of each
\* file that has one, in order.
CachedSummaries(unchanged_files) ==
    IF unchanged_files = << >> THEN << >>
    ELSE LET cached == get_cached_summary(Head(unchanged_files))
         IN  (IF cached # None THEN << cached[1] >> ELSE << >>)
                 \o CachedSummaries(Tail(unchanged_files))

\* Bug: the forced run asks the detector all the same.
ForceReport_AsksDetector(python_files) == detect_changes(python_files)

\* if force: ChangeReport(added_files=python_files, [], [], [])
ForceReport(python_files) ==
    Returned(ChangeReport(python_files, << >>, << >>, << >>))

\* Bug: the round trip of a module made a second time (a retry).
analyze_module_llm_calls_Retried(file_path) == << file_path, file_path >>

\* The LLM round trips of one analyze_module(parsed_file): _call_llm is called
\* once and makes one chat.completions.create, whose exception it swallows.
analyze_module_llm_calls(file_path) == << file_path >>

RunOver == run.pc \in {"idle", "done", "crashed"}

\* The process starts: banner printed, nothing read yet.
StartRun ==
    /\ RunOver
    /\ \E force \in BOOLEAN :
         run' = [IdleRun EXCEPT !.pc = "scan", !.force = force]
    /\ UNCHANGED << cwdIsRoot, files, metaFile, last, lastUpdate, store,
                     disk, analysis, repo, extraction,
                     racers, output >>

\* PHASE 1
Scan ==
    /\ run.pc = "scan"
    /\ \E python_files \in ScanResults :
         run' = [run EXCEPT !.pc = "detect", !.python_files = python_files]
    /\ UNCHANGED << cwdIsRoot, files, metaFile, last, lastUpdate, store,
                     disk, analysis, repo, extraction,
                     racers, output >>

\* PHASE 2, with the early return when nothing changed
Detect ==
    /\ run.pc = "detect"
    /\ LET res == IF run.force
                  THEN ForceReport(run.python_files)
                  ELSE detect_changes(run.python_files)
           \* detect_changes begins with one store.load()
           reads == IF run.force THEN 0 ELSE 1
       IN  run' =
             IF res.outcome # "returned"
             THEN [run EXCEPT !.pc = "crashed", !.metaBefore = metaFile,
                              !.metaReads = reads,
                              !.ended = "raised_in_detect"]
             ELSE IF ~has_changes(res.report) /\ ~run.force
             THEN [run EXCEPT !.pc = "done", !.changes = res.report,
                              !.metaReads = reads,
                              !.metaBefore = metaFile, !.ended = "up_to_date"]
             ELSE [run EXCEPT !.pc = "parse", !.changes = res.report,
                              !.metaReads = reads,
                              !.metaBefore = metaFile, !.i = 1]
    /\ UNCHANGED << cwdIsRoot, files, metaFile, last, lastUpdate, store,
                     disk, analysis, repo, extraction,
                     racers, output >>

\* PHASE 3: one iteration of the loop over changes.files_to_analyze
Parse ==
    /\ run.pc = "parse"
    /\ LET todo == files_to_analyze(run.changes) IN
       IF run.i > Len(todo)
       THEN run' = [run EXCEPT !.pc = "analyze", !.i = 1]
       ELSE LET parsed == parse_file(todo[run.i]) IN
            run' = [run EXCEPT
                      !.i = run.i + 1,
                      !.parseLog = Append(run.parseLog, todo[run.i]),
                      !.parsed_files = IF parsed # None
                                       THEN Append(run.parsed_files, parsed[1])
                                       ELSE run.parsed_files]
    /\ UNCHANGED << cwdIsRoot, files, metaFile, last, lastUpdate, store,
                     disk, analysis, repo, extraction,
                     racers, output >>

\* PHASE 4: one iteration of the loop over parsed_files.  analyze_module
\* returns a summary of the module, or lets an exception of the response
\* handling escape.
Analyze ==
    /\ run.pc = "analyze"
    /\ IF run.i > Len(run.parsed_files)
       THEN run' = [run EXCEPT !.pc = "merge", !.i = 1]
       ELSE LET pf == run.parsed_files[run.i] IN
            \/ \E purpose \in Purposes :
                 run' = [run EXCEPT
                           !.i = run.i + 1,
                           !.analyzeLog = run.analyzeLog \o
                               analyze_module_llm_calls(pf.file_path),
                           !.new_summaries =
                               Append(run.new_summaries,
                                      SummaryOf(pf.file_path, purpose))]
            \/ run' = [run EXCEPT
                         !.pc = "crashed",
                         !.analyzeLog = run.analyzeLog \o
                             analyze_module_llm_calls(pf.file_path)]
    /\ UNCHANGED << cwdIsRoot, files, metaFile, last, lastUpdate, store,
                     disk, analysis, repo, extraction,
                     racers, output >>

\* MERGE WITH CACHED SUMMARIES: each get_cached_summary begins with one
\* store.load()
Merge ==
    /\ run.pc = "merge"
    /\ run' = [run EXCEPT
                 !.pc = "synthesize",
                 !.cacheReads = run.changes.unchanged_files,
                 !.metaReads = run.metaReads + Len(run.changes.unchanged_files),
                 !.all_summaries =
                     run.new_summaries \o CachedSummaries(run.changes.unchanged_files)]
    /\ UNCHANGED << cwdIsRoot, files, metaFile, last, lastUpdate, store,
                     disk, analysis, repo, extraction,
                     racers, output >>

\* PHASE 5: one LLM call over the merged summaries
Synthesize ==
    /\ run.pc = "synthesize"
    /\ \/ run' = [run EXCEPT !.pc = "update", !.synthCalls = run.synthCalls + 1]
       \/ run' = [run EXCEPT !.pc = "crashed", !.synthCalls = run.synthCalls + 1]
    /\ UNCHANGED << cwdIsRoot, files, metaFile, last, lastUpdate, store,
                     disk, analysis, repo, extraction,
                     racers, output >>

\* PHASE 6: update_metadata begins with one store.load() and ends, unless it
\* raises, with one store.save()
UpdateMeta ==
    /\ run.pc = "update"
    /\ \E project_name \in ProjectNames :
       \E stamps \in [1..(Len(all_files(run)) + 1) -> Clock] :
         LET res == update_metadata(all_files(run),
                                    SummaryDictOf(run.all_summaries),
                                    project_name, stamps)
         IN  /\ metaFile' = res.metaFile
             /\ run' = IF res.outcome = "returned"
                       THEN [run EXCEPT !.pc = "generate",
                                        !.metaReads = run.metaReads + 1,
                                        !.metaWrites = run.metaWrites + 1]
                       ELSE [run EXCEPT !.pc = "crashed",
                                        !.metaReads = run.metaReads + 1]
    /\ UNCHANGED << cwdIsRoot, files, last, lastUpdate, store,
                     disk, analysis, repo, extraction,
                     racers, output >>

\* The two documents of output/<project_name>.
Documents == Some({"README_GENERATED.md", "TECHNICAL_DOC.md"})

\* How DocumentationGenerator.generate_all ends: it creates the output
\* directory and writes two files, and nothing around it catches the OSError
\* of a write that fails.
generate_all(written) == IF written THEN "returned" ELSE "OSError"

\* PHASE 7
Generate ==
    /\ run.pc = "generate"
    /\ \E written \in BOOLEAN :
         /\ run' = IF generate_all(written) = "returned"
                   THEN [run EXCEPT !.pc = "done", !.ended = "generated"]
                   ELSE [run EXCEPT !.pc = "crashed"]
         /\ output' = IF written THEN Documents ELSE output
    /\ UNCHANGED << cwdIsRoot, files, metaFile, last, lastUpdate, store,
                     disk, analysis, repo, extraction,
                     racers >>

\* Another program creates, rewrites or deletes a source file, at any time.
EditFile ==
    /\ \E p \in Paths :
        \/ \E c \in Contents :
             /\ files[p] # Some(c)
             /\ files' = [files EXCEPT ![p] = Some(c)]
        \/ /\ files[p] # None
           /\ files' = [files EXCEPT ![p] = None]
    /\ UNCHANGED << cwdIsRoot, metaFile, last, lastUpdate, run, store,
                     disk, analysis, repo, extraction,
                     racers, output >>

InitRun ==
    /\ InitFiles
    /\ last = NoCall
    /\ lastUpdate = None
    /\ run = IdleRun
    /\ store = NoStore
    /\ OthersIdle

NextRun ==
    \/ StartRun
    \/ Scan
    \/ Detect
    \/ Parse
    \/ Analyze
    \/ Merge
    \/ Synthesize
    \/ UpdateMeta
    \/ Generate
    \/ EditFile

SpecRun == InitRun /\ [][NextRun]_vars


\* ---------------------------------------------------------------------
\* main.py: generate_documentation(project_path, project_name), the pipeline
\* without change detection, on the same run record (new_summaries holds its
\* module_summaries)
\* ---------------------------------------------------------------------
StartMain ==
    /\ RunOver
    /\ run' = [IdleRun EXCEPT !.pc = "main_scan"]
    /\ UNCHANGED << cwdIsRoot, files, metaFile, last, lastUpdate, store,
                     disk, analysis, repo, extraction,
                     racers, output >>

\* PHASE 1
MainScan ==
    /\ run.pc = "main_scan"
    /\ \E python_files \in ScanResults :
         run' = [run EXCEPT !.pc = "main_parse", !.python_files = python_files,
                            !.i = 1]
    /\ UNCHANGED << cwdIsRoot, files, metaFile, last, lastUpdate, store,
                     disk, analysis, repo, extraction,
                     racers, output >>

\* PHASE 2: one iteration of the loop over python_files
MainParse ==
    /\ run.pc = "main_parse"
    /\ IF run.i > Len(run.python_files)
       THEN run' = [run EXCEPT !.pc = "main_analyze", !.i = 1]
       ELSE LET parsed == parse_file(run.python_files[run.i]) IN
            run' = [run EXCEPT
                      !.i = run.i + 1,
                      !.parseLog = Append(run.parseLog, run.python_files[run.i]),
                      !.parsed_files = IF parsed # None
                                       THEN Append(run.parsed_files, parsed[1])
                                       ELSE run.parsed_files]
    /\ UNCHANGED << cwdIsRoot, files, metaFile, last, lastUpdate, store,
                     disk, analysis, repo, extraction,
                     racers, output >>

\* PHASE 3: one iteration of the loop over parsed_files
MainAnalyze ==
    /\ run.pc = "main_analyze"
    /\ IF run.i > Len(run.parsed_files)
       THEN run' = [run EXCEPT !.pc = "main_synthesize", !.i = 1,
                               !.all_summaries = run.new_summaries]
       ELSE LET pf == run.parsed_files[run.i] IN
            \/ \E purpose \in Purposes :
                 run' = [run EXCEPT
                           !.i = run.i + 1,
                           !.analyzeLog = run.analyzeLog \o
                               analyze_module_llm_calls(pf.file_path),
                           !.new_summaries =
                               Append(run.new_summaries,
                                      SummaryOf(pf.file_path, purpose))]
            \/ run' = [run EXCEPT
                         !.pc = "crashed",
                         !.analyzeLog = run.analyzeLog \o
                             analyze_module_llm_calls(pf.file_path)]
    /\ UNCHANGED << cwdIsRoot, files, metaFile, last, lastUpdate, store,
                     disk, analysis, repo, extraction,
                     racers, output >>

\* PHASE 4: one LLM call over module_summaries
MainSynthesize ==
    /\ run.pc = "main_synthesize"
    /\ \/ run' = [run EXCEPT !.pc = "main_generate",
                              !.synthCalls = run.synthCalls + 1]
       \/ run' = [run EXCEPT !.pc = "crashed", !.synthCalls = run.synthCalls + 1]
    /\ UNCHANGED << cwdIsRoot, files, metaFile, last, lastUpdate, store,
                     disk, analysis, repo, extraction,
                     racers, output >>

\* PHASE 5
MainGenerate ==
    /\ run.pc = "main_generate"
    /\ \E written \in BOOLEAN :
         /\ run' = IF generate_all(written) = "returned"
                   THEN [run EXCEPT !.pc = "done", !.ended = "generated"]
                   ELSE [run EXCEPT !.pc = "crashed"]
         /\ output' = IF written THEN Documents ELSE output
    /\ UNCHANGED << cwdIsRoot, files, metaFile, last, lastUpdate, store,
                     disk, analysis, repo, extraction,
                     racers >>

NextMain ==
    \/ StartMain
    \/ MainScan
    \/ MainParse
    \/ MainAnalyze
    \/ MainSynthesize
    \/ MainGenerate

\* Runs of main.py and of main_v2.py, one after the other, on one project.
NextPipelines ==
    \/ NextRun
    \/ NextMain

SpecPipelines == InitRun /\ [][NextPipelines]_vars


\* ---------------------------------------------------------------------
\* Two cached runs on one project root at the same time, each at its
\* update_metadata: the files it scanned, its store.load(), and the rest of
\* the call up to store.save().  Nothing in MetadataStore or ChangeDetector
\* takes a lock, so the steps of the two interleave freely.
\* ---------------------------------------------------------------------
Other(r) == CHOOSE o \in Racers : o # r

\* The summaries of racer r: one per file, told apart by their purpose.
RacerSummaries(r, analyzed_files) ==
    [f \in Range(analyzed_files) |-> SummaryOf(f, r)]

\* The run of racer r scans the project: the list it will hand to
\* update_metadata.
RacerScan(r) ==
    /\ racers[r].pc = "idle"
    /\ \E python_files \in ScanResults :
         racers' = [racers EXCEPT ![r].pc = "load",
                                  ![r].analyzed_files = python_files]
    /\ UNCHANGED << cwdIsRoot, files, metaFile, last, lastUpdate, run, store,
                    disk, analysis, repo, extraction, output >>

\* update_metadata, line 97: self.store.load()
RacerLoad(r) ==
    /\ racers[r].pc = "load"
    /\ racers' = [racers EXCEPT
                    ![r].pc = "save",
                    ![r].loaded = load,
                    ![r].loadedFirst = (racers[Other(r)].pc # "done")]
    /\ UNCHANGED << cwdIsRoot, files, metaFile, last, lastUpdate, run, store,
                    disk, analysis, repo, extraction, output >>

\* update_metadata, lines 104-129: hash, rebuild the entries, prune, save
RacerSave(r) ==
    /\ racers[r].pc = "save"
    /\ \E project_name \in ProjectNames :
       \E stamps \in [1..(Len(racers[r].analyzed_files) + 1) -> Clock] :
         LET me == racers[r]
             res == update_metadata_loaded(
                        me.loaded, me.analyzed_files,
                        RacerSummaries(r, me.analyzed_files),
                        project_name, stamps)
         IN  /\ metaFile' = res.metaFile
             /\ racers' = [racers EXCEPT
                             ![r].pc = "done",
                             ![r].outcome = res.outcome,
                             ![r].savedLast =
                                 /\ racers[Other(r)].pc = "done"
                                 /\ racers[Other(r)].outcome = "returned"]
    /\ UNCHANGED << cwdIsRoot, files, last, lastUpdate, run, store,
                    disk, analysis, repo, extraction, output >>

NextRace ==
    \/ \E r \in Racers : RacerScan(r)
    \/ \E r \in Racers : RacerLoad(r)
    \/ \E r \in Racers : RacerSave(r)
    \/ EditFile

SpecRace == InitRun /\ [][NextRace]_vars


\* ---------------------------------------------------------------------
\* MetadataStore used directly: save(M), load(), clear() on one value M
\* ---------------------------------------------------------------------
MaxUsec == 1

\* Timestamps with and without a microsecond part.
Timestamps == {Datetime(0, usec) : usec \in 0..MaxUsec}

\* The content whose hash and size the entry of path f records.
EntryContent(f) == ((f - 1) % MaxContent) + 1

\* What else one file entry is made of: a timestamp, and a purpose for its
\* summary or none for no summary.
EntryChoices ==
    [at : Timestamps, purpose : {None} \cup {Some(pur) : pur \in Purposes}]

FileMaps ==
    UNION {{[f \in D |->
                FileMetadata(f, Sha256(EntryContent(f)), ch[f].at,
                             SizeOf(EntryContent(f)),
                             IF ch[f].purpose = None THEN None
                             ELSE Some(SummaryOf(f, ch[f].purpose[1])))] :
              ch \in [D -> EntryChoices]} : D \in SUBSET Paths}

MetadataValues ==
    {ProjectMetadata(n, ProjectRoot, t, fls) :
        n \in ProjectNames \cup {""}, t \in Timestamps, fls \in FileMaps}

InitStore ==
    /\ cwdIsRoot = TRUE
    /\ files = [p \in Paths |-> None]
    /\ metaFile = None
    /\ last = NoCall
    /\ lastUpdate = None
    /\ run = IdleRun
    /\ \E M \in MetadataValues : store = [NoStore EXCEPT !.held = Some(M)]
    /\ OthersIdle

StoreSave ==
    /\ store.held # None
    /\ metaFile' = save(store.held[1])
    /\ store' = [store EXCEPT !.op = "save", !.loaded = None]
    /\ UNCHANGED << cwdIsRoot, files, last, lastUpdate, run,
                     disk, analysis, repo, extraction,
                     racers, output >>

StoreLoad ==
    /\ store.held # None
    /\ store' = [store EXCEPT !.op = "load", !.loaded = load]
    /\ UNCHANGED << cwdIsRoot, files, metaFile, last, lastUpdate, run,
                     disk, analysis, repo, extraction,
                     racers, output >>

StoreClear ==
    /\ store.held # None
    /\ metaFile' = clear
    /\ store' = [store EXCEPT !.op = "clear", !.loaded = None]
    /\ UNCHANGED << cwdIsRoot, files, last, lastUpdate, run,
                     disk, analysis, repo, extraction,
                     racers, output >>

NextStore ==
    \/ StoreSave
    \/ StoreLoad
    \/ StoreClear

SpecStore == InitStore /\ [][NextStore]_vars

\* C6: load() after a successful save(M) returns a value equal to M: name,
\* root, last-updated timestamp, the same keys, and per file the same path,
\* hash, timestamp, size and summary (an absent summary stays absent).
C6_RoundTrip ==
    (store.op = "load" /\ metaFile # None)
    => /\ store.loaded # None
       /\ LET M == store.held[1]
              L == store.loaded[1]
          IN  /\ L.project_name = M.project_name
              /\ L.project_root = M.project_root
              /\ L.last_updated = M.last_updated
              /\ DOMAIN L.files = DOMAIN M.files
              /\ \A f \in DOMAIN M.files :
                    /\ L.files[f].file_path = M.files[f].file_path
                    /\ L.files[f].hash = M.files[f].hash
                    /\ L.files[f].last_analyzed = M.files[f].last_analyzed
                    /\ L.files[f].size_bytes = M.files[f].size_bytes
                    /\ L.files[f].summary = M.files[f].summary

\* A value with a file without summary, a file with one, and timestamps with
\* and without microseconds, read back.
C6_Witness ==
    /\ store.op = "load"
    /\ store.loaded # None
    /\ store.loaded[1] = store.held[1]
    /\ \E f, g \in DOMAIN store.held[1].files :
          /\ store.held[1].files[f].summary = None
          /\ store.held[1].files[g].summary # None
          /\ store.held[1].files[f].last_analyzed.usec = 0
          /\ store.held[1].files[g].last_analyzed.usec # 0

\* ---------------------------------------------------------------------
\* Properties of the ChangeDetector calls (specification Spec)
\* ---------------------------------------------------------------------
IsEmptyList(l) == l = << >>

NoDuplicates(l) == \A i, j \in DOMAIN l : i # j => l[i] # l[j]

\* The files of the last completed update_metadata are all as they were
\* when it returned.
Untouched ==
    \A f \in Range(lastUpdate[1].analyzed_files) : files[f] = lastUpdate[1].files[f]

\* C1: after update_metadata(F, ...) has completed, and while every file of F
\* has the content it had then, detect_changes over the files of F returns
\* unchanged = F (sorted), added, modified and deleted empty, has_changes false.
C1_StableAfterUpdate ==
    (/\ last.op = "detect_changes"
     /\ lastUpdate # None
     /\ Range(last.current_files) = Range(lastUpdate[1].analyzed_files)
     /\ Untouched)
    => /\ last.outcome = "returned"
       /\ last.report.unchanged_files = SortedSeqOf(Range(last.current_files))
       /\ IsEmptyList(last.report.added_files)
       /\ IsEmptyList(last.report.modified_files)
       /\ IsEmptyList(last.report.deleted_files)
       /\ ~has_changes(last.report)

C1_Witness ==
    /\ last.op = "detect_changes"
    /\ lastUpdate # None
    /\ Len(last.current_files) = MaxPaths
    /\ Range(last.current_files) = Range(lastUpdate[1].analyzed_files)
    /\ Untouched
    /\ last.report.unchanged_files = SortedSeqOf(Paths)

\* The keys and hashes the metadata file holds.
StoredFiles == metaFile[1].files

\* C2: with prior metadata, a returned report classifies by membership and
\* hash: added = current \ tracked, deleted = tracked \ current, modified =
\* in both with a hash other than the stored one, unchanged = in both with
\* the stored hash; the four lists are pairwise disjoint and duplicate-free,
\* and every current file is in exactly one of added, modified, unchanged.
\* A tracked file whose content is not the one update_metadata saw is modified.
C2_Classification ==
    (/\ last.op = "detect_changes"
     /\ last.outcome = "returned"
     /\ metaFile # None)
    => LET cur == Range(last.current_files)
           old == DOMAIN StoredFiles
           r == last.report
           A == Range(r.added_files)
           M == Range(r.modified_files)
           D == Range(r.deleted_files)
           U == Range(r.unchanged_files)
       IN  /\ A = cur \ old
           /\ D = old \ cur
           /\ M = {f \in cur \cap old : Sha256(files[f][1]) # StoredFiles[f].hash}
           /\ U = {f \in cur \cap old : Sha256(files[f][1]) = StoredFiles[f].hash}
           /\ A \cap M = {} /\ A \cap D = {} /\ A \cap U = {}
           /\ M \cap D = {} /\ M \cap U = {} /\ D \cap U = {}
           /\ NoDuplicates(r.added_files) /\ NoDuplicates(r.modified_files)
           /\ NoDuplicates(r.deleted_files) /\ NoDuplicates(r.unchanged_files)
           /\ A \cup M \cup U = cur
           /\ lastUpdate # None =>
                \A f \in cur \cap Range(lastUpdate[1].analyzed_files) :
                    files[f] # lastUpdate[1].files[f]
                        => f \in M /\ f \notin A /\ f \notin U

C2_Witness ==
    /\ last.op = "detect_changes"
    /\ last.outcome = "returned"
    /\ lastUpdate # None
    /\ \E f \in Range(last.current_files) \cap Range(lastUpdate[1].analyzed_files) :
          /\ files[f] # lastUpdate[1].files[f]
          /\ last.report.modified_files = << f >>
    /\ ~IsEmptyList(last.report.added_files)

\* C3: with no metadata file (first run, or after clear), detect_changes(F)
\* returns added = F and modified, deleted, unchanged empty; has_changes is
\* true whenever F is non-empty.
C3_FirstRun ==
    (last.op = "detect_changes" /\ metaFile = None)
    => /\ last.outcome = "returned"
       /\ last.report.added_files = last.current_files
       /\ IsEmptyList(last.report.modified_files)
       /\ IsEmptyList(last.report.deleted_files)
       /\ IsEmptyList(last.report.unchanged_files)
       /\ (~IsEmptyList(last.current_files) => has_changes(last.report))

C3_Witness ==
    /\ last.op = "detect_changes"
    /\ metaFile = None
    /\ Len(last.current_files) = MaxPaths
    /\ Len(last.report.added_files) = MaxPaths
    /\ has_changes(last.report)

\* C4: right after every update_metadata(analyzed_files, ...) that completed,
\* the keys of the persisted file map are exactly the analyzed files.
C4_TracksExactlyAnalyzed ==
    (last.op = "update_metadata" /\ last.outcome = "returned")
    => /\ metaFile # None
       /\ DOMAIN load[1].files = Range(last.current_files)

\* An update that left out an existing file and left one file tracked.
C4_Witness ==
    /\ last.op = "update_metadata"
    /\ last.outcome = "returned"
    /\ Len(last.current_files) = 1
    /\ \E f \in Paths \ Range(last.current_files) : files[f] # None
    /\ DOMAIN load[1].files = Range(last.current_files)

\* C5: after update_metadata(F, S, name) has completed, get_cached_summary(f)
\* returns S[f] for f in F with an entry in S, and absent for f in F without
\* one and for f not in F; with no metadata on disk it returns absent.
C5_CachedSummary ==
    last.op = "get_cached_summary"
    => LET f == last.file_path[1] IN
       /\ metaFile = None => last.summary = None
       /\ lastUpdate # None =>
            LET F == Range(lastUpdate[1].analyzed_files)
                S == lastUpdate[1].summaries
            IN  last.summary = IF f \in F /\ f \in DOMAIN S THEN Some(S[f]) ELSE None

\* A cached summary returned although the dict also held a file not analyzed.
C5_Witness ==
    /\ last.op = "get_cached_summary"
    /\ lastUpdate # None
    /\ last.summary # None
    /\ last.summary[1] = lastUpdate[1].summaries[last.file_path[1]]
    /\ \E g \in DOMAIN lastUpdate[1].summaries :
          g \notin Range(lastUpdate[1].analyzed_files)


\* ---------------------------------------------------------------------
\* Properties of the cached run (specification SpecRun)
\* ---------------------------------------------------------------------
\* Detection has returned a report to the run.
Detected == run.pc \notin {"idle", "scan", "detect"} /\ run.ended # "raised_in_detect"

\* Project synthesis has been called with the merged collection.
Synthesized ==
    run.pc \in {"update", "generate"} \/ (run.pc = "done" /\ run.ended = "generated")

ToAnalyze == Range(run.changes.added_files) \cup Range(run.changes.modified_files)

\* C7: in a non-forced run, parse_file and analyze_module are called only for
\* files classified added or modified, at most once per file, and never for a
\* file classified unchanged.
C7_OnlyChangedAnalyzed ==
    ~run.force
    => /\ Range(run.parseLog) \subseteq ToAnalyze
       /\ Range(run.analyzeLog) \subseteq ToAnalyze
       /\ NoDuplicates(run.parseLog)
       /\ NoDuplicates(run.analyzeLog)
       /\ Range(run.parseLog) \cap Range(run.changes.unchanged_files) = {}
       /\ Range(run.analyzeLog) \cap Range(run.changes.unchanged_files) = {}

C7_Witness ==
    /\ ~run.force
    /\ run.pc = "done"
    /\ run.ended = "generated"
    /\ ~IsEmptyList(run.changes.unchanged_files)
    /\ ~IsEmptyList(run.analyzeLog)
    /\ run.parseLog = files_to_analyze(run.changes)

\* The summaries of the merged collection that are about file f.
SummariesOf(f) ==
    {k \in DOMAIN run.all_summaries : run.all_summaries[k].file_path = f}

\* The summary the metadata file held for f when the run read it.
CachedBefore(f) ==
    IF run.metaBefore = None THEN None
    ELSE IF f \in DOMAIN run.metaBefore[1].files
         THEN from_json(run.metaBefore[1]).files[f].summary
         ELSE None

\* C8 as stated: in a non-forced run with changes, the collection handed to
\* synthesis and generation holds exactly one summary for every scanned file.
C8_OneSummaryPerScannedFile ==
    (~run.force /\ Synthesized)
    => /\ \A f \in Range(run.python_files) : Cardinality(SummariesOf(f)) = 1
       /\ Len(run.all_summaries) = Len(run.python_files)

\* C8 amended: the collection holds at most one summary per scanned file and
\* none about another file: for an added or modified file the fresh summary
\* of this run if parse_file parsed it and none otherwise, for an unchanged
\* file its cached summary if the metadata held one and none otherwise.
C8_MergedSummaries ==
    (~run.force /\ Synthesized)
    => /\ \A k \in DOMAIN run.all_summaries :
             run.all_summaries[k].file_path \in Range(run.python_files)
       /\ \A f \in Range(run.python_files) : Cardinality(SummariesOf(f)) <= 1
       /\ \A f \in ToAnalyze :
             IF \E j \in DOMAIN run.parsed_files : run.parsed_files[j].file_path = f
             THEN \E k \in SummariesOf(f), j \in DOMAIN run.new_summaries :
                     /\ run.all_summaries[k] = run.new_summaries[j]
                     /\ f \in Range(run.analyzeLog)
             ELSE SummariesOf(f) = {}
       /\ \A f \in Range(run.changes.unchanged_files) :
             IF CachedBefore(f) # None
             THEN \E k \in SummariesOf(f) : run.all_summaries[k] = CachedBefore(f)[1]
             ELSE SummariesOf(f) = {}

\* A merge of a fresh summary and a cached one.
C8_Witness ==
    /\ ~run.force
    /\ Synthesized
    /\ \E f \in ToAnalyze : SummariesOf(f) # {}
    /\ \E f \in Range(run.changes.unchanged_files) :
          SummariesOf(f) # {} /\ CachedBefore(f) # None

\* The files the metadata file tracks (none when there is no file).
Tracked == IF metaFile = None THEN {} ELSE DOMAIN metaFile[1].files

\* C9: when a cached run has completed, the persisted metadata tracks exactly
\* the files of its scan, and every file it classified unchanged has the
\* cached summary it had before the run.
C9_MetadataCoversScan ==
    (run.pc = "done")
    => /\ Tracked = Range(run.python_files)
       /\ \A f \in Range(run.changes.unchanged_files) :
             /\ f \in Tracked
             /\ load[1].files[f].summary = CachedBefore(f)

\* A run that analyzed one file and carried the cached summary of another.
C9_Witness ==
    /\ run.pc = "done"
    /\ run.ended = "generated"
    /\ ~run.force
    /\ ~IsEmptyList(run.analyzeLog)
    /\ \E f \in Range(run.changes.unchanged_files) :
          CachedBefore(f) # None /\ load[1].files[f].summary = CachedBefore(f)

NoChange(r) ==
    IsEmptyList(r.added_files) /\ IsEmptyList(r.modified_files)
        /\ IsEmptyList(r.deleted_files)

\* C10: a non-forced run whose report has no added, modified or deleted file
\* is over once detection returned: nothing parsed, no LLM call, the metadata
\* file not written, no document generated.
C10_UpToDateEndsRun ==
    (~run.force /\ Detected /\ NoChange(run.changes))
    => /\ run.pc = "done"
       /\ run.ended = "up_to_date"
       /\ IsEmptyList(run.parseLog)
       /\ IsEmptyList(run.analyzeLog)
       /\ run.synthCalls = 0
       /\ run.metaWrites = 0
       /\ metaFile = run.metaBefore

C10_Witness ==
    /\ ~run.force
    /\ run.pc = "done"
    /\ run.ended = "up_to_date"
    /\ NoChange(run.changes)
    /\ ~IsEmptyList(run.changes.unchanged_files)
    /\ metaFile # None

\* ---------------------------------------------------------------------
\* analyzer.py, analyzer_self.py: texts and JSON
\* ---------------------------------------------------------------------
\* A text is a sequence of tokens.  Fence is the code-fence delimiter (three
\* backquotes); a fence with the json tag is the token Fence followed by the
\* token JsonTag; Ws is white space; Q is the double quote of a JSON
\* string; "w" is a word; the three keys stand for the quoted key strings.
MaxStr == 1

Ws == " "
Q == "quote"
ThinkOpen == "<think>"
ThinkClose == "</think>"
Fence == "fence"
JsonTag == "json"
Keys == << "purpose", "responsibilities", "key_components", "project_purpose" >>

\* str.strip()
RECURSIVE StripLeft(_)
StripLeft(t) == IF t # << >> /\ Head(t) = Ws THEN StripLeft(Tail(t)) ELSE t

RECURSIVE StripRight(_)
StripRight(t) ==
    IF t # << >> /\ t[Len(t)] = Ws THEN StripRight(SubSeq(t, 1, Len(t) - 1)) ELSE t

strip(t) == StripRight(StripLeft(t))

\* sub in text
Contains(t, tok) == \E i \in DOMAIN t : t[i] = tok

\* Bug: split(...)[0], what precedes the first occurrence.
AfterLast_BeforeFirst(t, tok) ==
    IF Contains(t, tok)
    THEN LET i == CHOOSE k \in DOMAIN t :
                    t[k] = tok /\ \A l \in DOMAIN t : t[l] = tok => k <= l
         IN  SubSeq(t, 1, i - 1)
    ELSE t

\* text.split("</think>")[-1]: what follows the last "</think>", the whole
\* text when there is none.
AfterLast(t, tok) ==
    IF Contains(t, tok)
    THEN LET i == CHOOSE k \in DOMAIN t :
                    t[k] = tok /\ \A l \in DOMAIN t : t[l] = tok => l <= k
         IN  SubSeq(t, i + 1, Len(t))
    ELSE t

\* text.startswith(fence + "json"), text.startswith(fence)
StartsWithFenceJson(t) == Len(t) >= 2 /\ t[1] = Fence /\ t[2] = JsonTag
StartsWithFence(t) == Len(t) >= 1 /\ t[1] = Fence

\* text.replace(fence + "json", "")
RECURSIVE RemoveFenceJson(_)
RemoveFenceJson(t) ==
    IF t = << >> THEN << >>
    ELSE IF StartsWithFenceJson(t) THEN RemoveFenceJson(SubSeq(t, 3, Len(t)))
    ELSE << Head(t) >> \o RemoveFenceJson(Tail(t))

\* text.replace(fence, "")
RECURSIVE RemoveFence(_)
RemoveFence(t) ==
    IF t = << >> THEN << >>
    ELSE IF Head(t) = Fence THEN RemoveFence(Tail(t))
    ELSE << Head(t) >> \o RemoveFence(Tail(t))

\* Decoded JSON values: a string, a list, an object (dict).
JStr(content) == [kind |-> "str", s |-> content]
JList(items) == [kind |-> "list", items |-> items]
JDict(d) == [kind |-> "dict", d |-> d]

\* The result of a parsing step: the value and the text left, or a failure.
Parsed(v, rest) == [ok |-> TRUE, val |-> v, rest |-> rest]
NotParsed == [ok |-> FALSE, val |-> JStr(<< >>), rest |-> << >>]

\* A JSON string: Q, any tokens but Q, Q.
ParseString(t) ==
    IF t # << >> /\ Head(t) = Q /\ \E j \in 2..Len(t) : t[j] = Q
    THEN LET j == CHOOSE k \in 2..Len(t) :
                    t[k] = Q /\ \A l \in 2..Len(t) : t[l] = Q => k <= l
         IN  Parsed(JStr(SubSeq(t, 2, j - 1)), StripLeft(SubSeq(t, j + 1, Len(t))))
    ELSE NotParsed

RECURSIVE ParseValue(_), ParseElems(_, _), ParseMembers(_, _)

\* The elements of a list after "[" or after a ",".
ParseElems(t, acc) ==
    LET e == ParseValue(t) IN
    IF ~e.ok THEN NotParsed
    ELSE IF e.rest # << >> /\ Head(e.rest) = ","
         THEN ParseElems(StripLeft(Tail(e.rest)), Append(acc, e.val))
    ELSE IF e.rest # << >> /\ Head(e.rest) = "]"
         THEN Parsed(JList(Append(acc, e.val)), StripLeft(Tail(e.rest)))
    ELSE NotParsed

\* The members of an object after "{" or after a ",": key ":" value.
ParseMembers(t, acc) ==
    IF Len(t) < 3 \/ Head(t) \notin Range(Keys) \/ t[2] # ":" THEN NotParsed
    ELSE LET e == ParseValue(StripLeft(SubSeq(t, 3, Len(t))))
             d == [k \in DOMAIN acc \cup {Head(t)} |->
                      IF k = Head(t) THEN e.val ELSE acc[k]]
         IN  IF ~e.ok THEN NotParsed
             ELSE IF e.rest # << >> /\ Head(e.rest) = ","
                  THEN ParseMembers(StripLeft(Tail(e.rest)), d)
             ELSE IF e.rest # << >> /\ Head(e.rest) = "}"
                  THEN Parsed(JDict(d), StripLeft(Tail(e.rest)))
             ELSE NotParsed

ParseValue(t) ==
    IF t = << >> THEN NotParsed
    ELSE IF Head(t) = Q THEN ParseString(t)
    ELSE IF Head(t) = "["
         THEN LET r == StripLeft(Tail(t)) IN
              IF r # << >> /\ Head(r) = "]"
              THEN Parsed(JList(<< >>), StripLeft(Tail(r)))
              ELSE ParseElems(r, << >>)
    ELSE IF Head(t) = "{"
         THEN LET r == StripLeft(Tail(t)) IN
              IF r # << >> /\ Head(r) = "}"
              THEN Parsed(JDict([k \in {} |-> JStr(<< >>)]), StripLeft(Tail(r)))
              ELSE ParseMembers(r, [k \in {} |-> JStr(<< >>)])
    ELSE NotParsed

\* json.loads(text): the decoded value, or None for JSONDecodeError.
json_loads(t) ==
    LET r == ParseValue(StripLeft(t)) IN
    IF r.ok /\ r.rest = << >> THEN Some(r.val) ELSE None

RECURSIVE DumpItems(_)
DumpItems(items) ==
    IF items = << >> THEN << >>
    ELSE IF Len(items) = 1 THEN << Q >> \o items[1].s \o << Q >>
    ELSE << Q >> \o items[1].s \o << Q, "," >> \o DumpItems(Tail(items))

\* The JSON text of a string or of a list of strings.
DumpValue(v) ==
    IF v.kind = "str" THEN << Q >> \o v.s \o << Q >>
    ELSE << "[" >> \o DumpItems(v.items) \o << "]" >>

RECURSIVE DumpMembers(_, _)
DumpMembers(d, i) ==
    IF i > Len(Keys) THEN << >>
    ELSE IF Keys[i] \notin DOMAIN d THEN DumpMembers(d, i + 1)
    ELSE LET rest == DumpMembers(d, i + 1) IN
         << Keys[i], ":" >> \o DumpValue(d[Keys[i]])
             \o (IF rest = << >> THEN << >> ELSE << "," >> \o rest)

\* The JSON text of an object whose values are strings and lists of strings.
DumpObject(d) == << "{" >> \o DumpMembers(d, 1) \o << "}" >>

\* ---------------------------------------------------------------------
\* analyzer.py (generation "analyzer"), analyzer_self.py ("analyzer_self")
\* ---------------------------------------------------------------------
MaxClasses == 2
MaxFunctions == 21

Generations == {"analyzer", "analyzer_self"}

SMALL_MODEL == "qwen/qwen3-32b"
MEDIUM_MODEL == "openai/gpt-oss-120b"
LARGE_MODEL == "llama-3.3-70b-versatile"

\* What the analyzer reads of a ParsedFile (the rest only feeds the prompt).
ParsedFile(file_path, imports, n_classes, n_functions) ==
    [file_path |-> file_path, imports |-> imports,
     n_classes |-> n_classes, n_functions |-> n_functions]

\* _select_model_for_file of either generation
select_model_for_file(generation, parsed_file) ==
    LET total_items == parsed_file.n_classes + parsed_file.n_functions IN
    IF total_items <= 5 THEN SMALL_MODEL
    ELSE IF generation = "analyzer"
         THEN (IF total_items < 15 THEN MEDIUM_MODEL ELSE LARGE_MODEL)
         ELSE (IF total_items <= 20 THEN MEDIUM_MODEL ELSE LARGE_MODEL)

\* What the chat-completion call does: it raises (transport or service
\* error), or it returns a message whose content is a text or is absent.
LlmException == [kind |-> "exception", content |-> None]
LlmContent(c) == [kind |-> "content", content |-> c]

\* _call_llm: the exception becomes "" in analyzer.py and "{}" in
\* analyzer_self.py; otherwise message.content as it is (a text, or None).
call_llm(generation, reply) ==
    IF reply.kind = "exception"
    THEN (IF generation = "analyzer" THEN Some(<< >>) ELSE Some(<< "{", "}" >>))
    ELSE reply.content

\* "Remove markdown code fences if present"
StripFences(t) ==
    IF StartsWithFenceJson(t) THEN strip(RemoveFence(RemoveFenceJson(t)))
    ELSE IF StartsWithFence(t) THEN strip(RemoveFence(t))
    ELSE t

\* The cleaning at the head of _parse_module_response and of
\* _parse_synthesis_response (analyzer.py); analyzer_self.py decodes the raw
\* text.
Normalize(generation, response) ==
    IF generation = "analyzer"
    THEN LET cleaned == strip(response)
             unthought == IF Contains(cleaned, ThinkOpen)
                          THEN strip(AfterLast(cleaned, ThinkClose))
                          ELSE cleaned
         IN  StripFences(unthought)
    ELSE response

\* Bug: the sentinels of the two generations exchanged.
SentinelPurpose_Exchanged(generation) ==
    IF generation = "analyzer" THEN [kind |-> "str", s |-> << "No purpose provided" >>]
    ELSE [kind |-> "str", s |-> << "N/A" >>]

\* The sentinel purpose of a generation.
SentinelPurpose(generation) ==
    IF generation = "analyzer" THEN JStr(<< "N/A" >>)
    ELSE JStr(<< "No purpose provided" >>)

\* data.get(key, default)
Get(data, key, default) == IF key \in DOMAIN data.d THEN data.d[key] ELSE default

AnalysisReturned(v) == [outcome |-> "returned", value |-> v]
AnalysisRaised(e) == [outcome |-> e, value |-> JStr(<< >>)]

\* The exception that leaves the try block of a response parser, if any:
\* None.strip() and json.loads(None) raise, and so does .get on a decoded
\* value that is not a dict; only JSONDecodeError is caught.
UncaughtError(generation, response) ==
    IF response = None
    THEN Some(IF generation = "analyzer" THEN "AttributeError" ELSE "TypeError")
    ELSE LET data == json_loads(Normalize(generation, response[1])) IN
         IF data # None /\ data[1].kind # "dict" THEN Some("AttributeError")
         ELSE None

\* Bug: the imports left out.
Dependencies_Dropped(data, parsed_file) == << >>

\* dependencies=parsed_file.imports
Dependencies(data, parsed_file) == parsed_file.imports

\* _parse_module_response(response, parsed_file)
parse_module_response(generation, response, parsed_file) ==
    LET err == UncaughtError(generation, response) IN
    IF err # None THEN AnalysisRaised(err[1])
    ELSE LET data == json_loads(Normalize(generation, response[1])) IN
         IF data = None
         THEN AnalysisReturned(
                  ModuleSummary(parsed_file.file_path, SentinelPurpose(generation),
                                JList(<< >>), JList(<< >>), parsed_file.imports))
         ELSE AnalysisReturned(
                  ModuleSummary(parsed_file.file_path,
                                Get(data[1], "purpose", SentinelPurpose(generation)),
                                Get(data[1], "responsibilities", JList(<< >>)),
                                Get(data[1], "key_components", JList(<< >>)),
                                Dependencies(data[1], parsed_file)))

ProjectAnalysis(project_purpose, architecture_overview, entry_points, module_relationships, design_patterns) ==
    [project_purpose |-> project_purpose,
     architecture_overview |-> architecture_overview,
     entry_points |-> entry_points,
     module_relationships |-> module_relationships,
     design_patterns |-> design_patterns]

\* _parse_synthesis_response(response) (analyzer.py)
parse_synthesis_response(generation, response) ==
    LET err == UncaughtError(generation, response) IN
    IF err # None THEN AnalysisRaised(err[1])
    ELSE LET data == json_loads(Normalize(generation, response[1])) IN
         IF data = None
         THEN AnalysisReturned(
                  ProjectAnalysis(JStr(<< "Parse error" >>), JStr(<< "Parse error" >>),
                                  JList(<< >>), JStr(<< "Parse error" >>), JList(<< >>)))
         ELSE AnalysisReturned(
                  ProjectAnalysis(Get(data[1], "project_purpose", JStr(<< "N/A" >>)),
                                  Get(data[1], "architecture_overview", JStr(<< "N/A" >>)),
                                  Get(data[1], "entry_points", JList(<< >>)),
                                  Get(data[1], "module_relationships", JStr(<< "N/A" >>)),
                                  Get(data[1], "design_patterns", JList(<< >>))))

\* ---------------------------------------------------------------------
\* Calls on a CodeAnalyzer and the answers of the LLM service
\* ---------------------------------------------------------------------
ContentTokens == {"w", Fence, ThinkClose}

\* The contents of the strings of an answer.
StringContents == UNION {[1..n -> ContentTokens] : n \in 0..MaxStr}

Imports == {<< >>, << "os" >>}

\* The modules given to analyze_module.
AnalyzedModules ==
    {ParsedFile(1, imports, n_classes, 0) : imports \in Imports, n_classes \in 0..1}

\* The modules given to _select_model_for_file.
SizedModules ==
    {ParsedFile(1, << >>, n_classes, n_functions) :
        n_classes \in 0..MaxClasses, n_functions \in 0..MaxFunctions}

\* Optional members of an answer object.
PurposeChoices == {None} \cup {Some(JStr(c)) : c \in StringContents}
ListChoices ==
    {None, Some(JList(<< >>))} \cup {Some(JList(<< JStr(c) >>)) : c \in StringContents}
ComponentChoices == {None, Some(JList(<< JStr(<< "w" >>), JStr(<< "w", "w" >>) >>))}

\* The object with the members that are present.
ObjectOf(purpose, responsibilities, key_components) ==
    LET present == [k \in {"purpose", "responsibilities", "key_components"} |->
                       IF k = "purpose" THEN purpose
                       ELSE IF k = "responsibilities" THEN responsibilities
                       ELSE key_components]
    IN  [k \in {j \in DOMAIN present : present[j] # None} |-> present[k][1]]

ModuleObjects ==
    {ObjectOf(p, r, c) : p \in PurposeChoices, r \in ListChoices, c \in ComponentChoices}

SynthesisObjects ==
    {[k \in {"project_purpose"} |-> JStr(c)] : c \in StringContents}

ThinkBlocks == {<< >>, << ThinkOpen, "w", ThinkClose, Ws >>}

\* An answer object as the service can write it: after an optional think
\* block, bare or inside a code fence, with the json tag or without.
Wrapped(think, fence, d) ==
    think \o (IF fence = "json" THEN << Fence, JsonTag, Ws >>
              ELSE IF fence = "plain" THEN << Fence, Ws >> ELSE << >>)
          \o DumpObject(d)
          \o (IF fence = "none" THEN << >> ELSE << Ws, Fence >>)

ObjectAnswers ==
    {Wrapped(think, fence, d) : think \in ThinkBlocks,
        fence \in {"none", "plain", "json"},
        d \in ModuleObjects \cup SynthesisObjects}

\* Answers that are no JSON object: nothing, prose, a cut-off object, and
\* valid JSON that is a list or a string.
OtherAnswers ==
    {<< >>, << "w", Ws, "w" >>, << "{", "purpose", ":", Q, "w" >>,
     << "[", "]" >>, << Q, "w", Q >>, << Ws, "[", Q, "w", Q, "]" >>}

LlmReplies ==
    {LlmException, LlmContent(None)}
        \cup {LlmContent(Some(t)) : t \in ObjectAnswers \cup OtherAnswers}

AnalysisOver == analysis.pc \in {"idle", "returned", "raised"}

\* analyze_module(parsed_file) up to the request to the service
AnalyzeModuleCall ==
    /\ AnalysisOver
    /\ \E generation \in Generations, parsed_file \in AnalyzedModules :
         analysis' = [NoAnalysis EXCEPT
                        !.pc = "llm", !.generation = generation,
                        !.op = "analyze_module", !.parsed_file = parsed_file,
                        !.model = select_model_for_file(generation, parsed_file)]
    /\ UNCHANGED << cwdIsRoot, files, metaFile, last, lastUpdate, run, store,
                    disk, repo, extraction,
                    racers, output >>

\* synthesize_project(module_summaries, project_path) up to the request
SynthesizeProjectCall ==
    /\ AnalysisOver
    /\ analysis' = [NoAnalysis EXCEPT
                      !.pc = "llm", !.generation = "analyzer",
                      !.op = "synthesize_project", !.model = LARGE_MODEL]
    /\ UNCHANGED << cwdIsRoot, files, metaFile, last, lastUpdate, run, store,
                    disk, repo, extraction,
                    racers, output >>

\* _call_llm: the service answers or fails
LlmReply ==
    /\ analysis.pc = "llm"
    /\ \E reply \in LlmReplies :
         analysis' = [analysis EXCEPT
                        !.pc = "parse", !.reply = reply,
                        !.response = call_llm(analysis.generation, reply)]
    /\ UNCHANGED << cwdIsRoot, files, metaFile, last, lastUpdate, run, store,
                    disk, repo, extraction,
                    racers, output >>

\* _parse_module_response / _parse_synthesis_response, and the return
ParseResponse ==
    /\ analysis.pc = "parse"
    /\ LET res == IF analysis.op = "analyze_module"
                  THEN parse_module_response(analysis.generation, analysis.response,
                                             analysis.parsed_file)
                  ELSE parse_synthesis_response(analysis.generation, analysis.response)
       IN  analysis' = [analysis EXCEPT
                          !.pc = IF res.outcome = "returned" THEN "returned" ELSE "raised",
                          !.result = res]
    /\ UNCHANGED << cwdIsRoot, files, metaFile, last, lastUpdate, run, store,
                    disk, repo, extraction,
                    racers, output >>

InitAnalyzer ==
    /\ cwdIsRoot = TRUE
    /\ files = [p \in Paths |-> None]
    /\ metaFile = None
    /\ last = NoCall
    /\ lastUpdate = None
    /\ run = IdleRun
    /\ store = NoStore
    /\ OthersIdle

NextAnalyzer ==
    \/ AnalyzeModuleCall
    \/ SynthesizeProjectCall
    \/ LlmReply
    \/ ParseResponse

SpecAnalyzer == InitAnalyzer /\ [][NextAnalyzer]_vars

\* _select_model_for_file called on a module of any size
SelectModelCall ==
    /\ \E generation \in Generations, parsed_file \in SizedModules :
         analysis' = [NoAnalysis EXCEPT
                        !.pc = "selected", !.generation = generation,
                        !.op = "select_model_for_file", !.parsed_file = parsed_file,
                        !.model = select_model_for_file(generation, parsed_file)]
    /\ UNCHANGED << cwdIsRoot, files, metaFile, last, lastUpdate, run, store,
                    disk, repo, extraction,
                    racers, output >>

NextSelect == SelectModelCall

SpecSelect == InitAnalyzer /\ [][NextSelect]_vars

\* ---------------------------------------------------------------------
\* scanner.py: scan_project; core/scanner.py: RepositoryScanner
\* ---------------------------------------------------------------------
\* A name is a sequence of chunks of characters, so that one name can
\* contain another: "venv" is << "venv" >>, "venvtools.py" is
\* << "venv", "tools", ".py" >>, ".cache" is << ".", "cache" >>.
MaxDepth == 2

Venv == << "venv" >>
DotCache == << ".", "cache" >>
Pkg == << "pkg" >>
DirNames == {Venv, DotCache, Pkg}

VenvTools == << "venv", "tools", ".py" >>
Util == << "util", ".py" >>
Setup == << "setup", ".py" >>
Notes == << "notes", ".txt" >>
FileNames == {VenvTools, Util, Setup, Notes}

\* ignore_dirs (of the call, of ScannerConfig), include_extensions,
\* ignore_files, restricted to the names above.
IgnoreDirs == {Venv}
IncludeExtensions == {".py"}
IgnoreFiles == {Setup}

\* D in name, for strings
SubstringOf(D, name) ==
    \E i \in 0..(Len(name) - Len(D)) : SubSeq(name, i + 1, i + Len(D)) = D

\* name.startswith(".")
StartsWithDot(name) == name # << >> /\ name[1] = "."

\* Path.suffix
Suffix(name) == IF Len(name) >= 2 /\ name[Len(name)] \in {".py", ".txt"}
                THEN name[Len(name)] ELSE ""

\* Directory chains of at most MaxDepth names.
DirChains == UNION {[1..n -> DirNames] : n \in 0..MaxDepth}

\* A file of the tree: the directories from the scan root down to it, its
\* name, whether it is larger than max_file_size, whether it is binary.
TreeFiles ==
    {[dirs |-> d, name |-> n, large |-> sz[1], binary |-> sz[2]] :
        d \in DirChains, n \in FileNames,
        sz \in {<< FALSE, FALSE >>, << TRUE, FALSE >>, << FALSE, TRUE >>}}

\* str(file.relative_to(project_path))
RelativePath(f) == [dirs |-> f.dirs, name |-> f.name]

\* file.relative_to(project_path).parts
Parts(f) == f.dirs \o << f.name >>

\* scan_project keeps a file matched by **/*.py none of whose parts is in
\* ignore_dirs.
ScanProjectKeeps(f) ==
    /\ Suffix(f.name) = ".py"
    /\ ~ \E i \in DOMAIN Parts(f) : Parts(f)[i] \in IgnoreDirs

scan_project(tree) ==
    IF tree # None /\ ScanProjectKeeps(tree[1])
    THEN << RelativePath(tree[1]) >> ELSE << >>

\* "Check if in ignored directory": the loop over file_path.parents, which
\* are the directories under the scan root, the scan root itself and every
\* directory above it up to the root of the file system.  above lists the
\* names from the top down to the scan root, its last element.
InIgnoredDirectory(above, f) ==
    \/ \E i \in DOMAIN f.dirs :
          f.dirs[i] \in IgnoreDirs \/ StartsWithDot(f.dirs[i])
    \/ \E i \in DOMAIN above :
          \/ above[i] \in IgnoreDirs
          \/ (StartsWithDot(above[i]) /\ i # Len(above))

\* RepositoryScanner._should_include_file
should_include_file(above, f) ==
    /\ ~InIgnoredDirectory(above, f)
    /\ Suffix(f.name) \in IncludeExtensions
    /\ f.name \notin IgnoreFiles
    /\ ~f.large
    /\ ~f.binary

\* RepositoryScanner._find_source_files
find_source_files(above, tree) ==
    IF tree # None /\ should_include_file(above, tree[1])
    THEN << RelativePath(tree[1]) >> ELSE << >>

\* DirectoryNode (the path left out: it is the place of the node in the tree)
DirectoryNode(name, children, file_names) ==
    [name |-> name, children |-> children, files |-> file_names]

\* self._should_inculde_file(item), as _build_directory_tree spells it:
\* RepositoryScanner has no attribute of that name, so the call raises
\* AttributeError whatever the file is.
should_inculde_file(above, f) == [outcome |-> "AttributeError", value |-> FALSE]

RECURSIVE build_directory_tree(_, _, _, _)
\* _build_directory_tree(path) for the directory called name, where the file
\* f lies below the directories dirs.  An exception inside the loop over the
\* directory is caught by its except clause and ends the listing.
build_directory_tree(above, name, dirs, f) ==
    IF dirs = << >>
    THEN LET included == should_inculde_file(above, f)
         IN  DirectoryNode(name, << >>,
                           IF included.outcome = "returned" /\ included.value
                           THEN << f.name >> ELSE << >>)
    ELSE IF Head(dirs) \in IgnoreDirs \/ StartsWithDot(Head(dirs))
    THEN DirectoryNode(name, << >>, << >>)
    ELSE LET child_node == build_directory_tree(above, Head(dirs), Tail(dirs), f)
         IN  DirectoryNode(name,
                           IF child_node.files # << >> \/ child_node.children # << >>
                           THEN << child_node >> ELSE << >>,
                           << >>)

RECURSIVE count_directories(_)
\* _count_directories(node)
count_directories(node) ==
    1 + (IF node.children = << >> THEN 0
         ELSE count_directories(node.children[1]))

\* RepositoryScanner.scan(): the ProjectStructure (root_path left out)
scan(above, tree) ==
    LET root_node == build_directory_tree(above, above[Len(above)],
                                          tree[1].dirs, tree[1])
        found == find_source_files(above, tree)
    IN  [root_node |-> root_node, all_files |-> found,
         total_files |-> Len(found),
         total_directories |-> count_directories(root_node)]

\* The scan root: the names of the directories from the top of the file
\* system down to it.
RootLocations == DirChains \ {<< >>}

\* Another program puts a file under the scan root (each file is decided on
\* its own by both scanners; the tree holds one).
PlaceFile ==
    /\ \E f \in TreeFiles :
         repo' = [repo EXCEPT !.pc = "placed", !.file = Some(f),
                              !.python_files = << >>, !.all_files = << >>,
                              !.root_node = None, !.total_files = 0,
                              !.total_directories = 0]
    /\ UNCHANGED << cwdIsRoot, files, metaFile, last, lastUpdate, run, store,
                    disk, analysis, extraction,
                    racers, output >>

ScanProjectCall ==
    /\ repo.pc \in {"placed", "found"}
    /\ repo' = [repo EXCEPT !.pc = IF repo.pc = "found" THEN "both" ELSE "scanned",
                             !.python_files = scan_project(repo.file)]
    /\ UNCHANGED << cwdIsRoot, files, metaFile, last, lastUpdate, run, store,
                    disk, analysis, extraction,
                    racers, output >>

RepositoryScanCall ==
    /\ repo.pc \in {"placed", "scanned"}
    /\ LET structure == scan(repo.above, repo.file) IN
       repo' = [repo EXCEPT !.pc = IF repo.pc = "scanned" THEN "both" ELSE "found",
                             !.all_files = structure.all_files,
                             !.root_node = Some(structure.root_node),
                             !.total_files = structure.total_files,
                             !.total_directories = structure.total_directories]
    /\ UNCHANGED << cwdIsRoot, files, metaFile, last, lastUpdate, run, store,
                    disk, analysis, extraction,
                    racers, output >>

InitScan ==
    /\ cwdIsRoot = TRUE
    /\ files = [p \in Paths |-> None]
    /\ metaFile = None
    /\ last = NoCall
    /\ lastUpdate = None
    /\ run = IdleRun
    /\ store = NoStore
    /\ disk = "ok"
    /\ analysis = NoAnalysis
    /\ extraction = NoExtraction
    /\ NoRace
    /\ \E above \in RootLocations : repo = [NoRepo EXCEPT !.above = above]

NextScan ==
    \/ PlaceFile
    \/ ScanProjectCall
    \/ RepositoryScanCall

SpecScan == InitScan /\ [][NextScan]_vars

\* ---------------------------------------------------------------------
\* core/parser.py: CodeParser._extract_parameters
\* ---------------------------------------------------------------------
MaxParams == 3

\* ast.arg: the name and the optional annotation of a parameter.
Arg(arg, annotation) == [arg |-> arg, annotation |-> annotation]

ParamNames == << "p1", "p2", "p3", "p4", "p5", "p6" >>
Annotations == {None, Some("int")}

\* The regular parameters of a definition: distinct names, each annotated
\* or not.
ArgLists ==
    UNION {{[i \in 1..n |-> Arg(ParamNames[i], ann[i])] : ann \in [1..n -> Annotations]} :
              n \in 0..MaxParams}

\* The default expressions, numbered in source order.
DefaultLists == {[k \in 1..n |-> k] : n \in 0..MaxParams}

\* ast.arguments as _extract_parameters reads it.
Arguments ==
    [args : ArgLists, defaults : DefaultLists,
     vararg : {None, Some(Arg("args", None)), Some(Arg("args", Some("int")))},
     kwarg : {None, Some(Arg("kwargs", None))}]

\* _node_to_string, _annotation_to_string: the source text of a node.
node_to_string(node) == << "source", node >>
annotation_to_string(annotation) == << "source", annotation >>

\* Parameter(name, type_hint, default_value); a name is its marker ("", "*"
\* or "**") and the identifier.
Parameter(name, type_hint, default_value) ==
    [name |-> name, type_hint |-> type_hint, default_value |-> default_value]

TypeHint(a) ==
    IF a.annotation # None THEN Some(annotation_to_string(a.annotation[1])) ELSE None

\* Bug: the defaults paired from the left.
DefaultIdx_FromLeft(i, n_args, n_defaults) == i

\* default_idx = i - defaults_offset (positions counted from 1)
DefaultIdx(i, n_args, n_defaults) == i - (n_args - n_defaults)

extract_parameters(args) ==
    LET regular ==
            [i \in DOMAIN args.args |->
                LET default_idx == DefaultIdx(i, Len(args.args), Len(args.defaults)) IN
                Parameter(<< "", args.args[i].arg >>, TypeHint(args.args[i]),
                          IF default_idx >= 1 /\ default_idx <= Len(args.defaults)
                          THEN Some(node_to_string(args.defaults[default_idx]))
                          ELSE None)]
        star == IF args.vararg # None
                THEN << Parameter(<< "*", args.vararg[1].arg >>,
                                  TypeHint(args.vararg[1]), None) >>
                ELSE << >>
        dstar == IF args.kwarg # None
                 THEN << Parameter(<< "**", args.kwarg[1].arg >>,
                                   TypeHint(args.kwarg[1]), None) >>
                 ELSE << >>
    IN  regular \o star \o dstar

ExtractParametersCall ==
    /\ \E args \in Arguments :
         extraction' = [pc |-> "extracted", args |-> args,
                        parameters |-> extract_parameters(args)]
    /\ UNCHANGED << cwdIsRoot, files, metaFile, last, lastUpdate, run, store,
                    disk, analysis, repo,
                    racers, output >>

InitParams ==
    /\ cwdIsRoot = TRUE
    /\ files = [p \in Paths |-> None]
    /\ metaFile = None
    /\ last = NoCall
    /\ lastUpdate = None
    /\ run = IdleRun
    /\ store = NoStore
    /\ OthersIdle

NextParams == ExtractParametersCall

SpecParams == InitParams /\ [][NextParams]_vars

\* C11: in a run with force set, once detection is over every scanned file is
\* in added and in files_to_analyze (in scan order), nothing is classified
\* unchanged, no get_cached_summary call is made and the merged collection
\* holds only the summaries of this run, whatever metadata is on disk; the
\* run never ends as up to date.
C11_ForceBypassesCache ==
    run.force
    => /\ run.ended # "up_to_date"
       /\ run.ended # "raised_in_detect"
       /\ IsEmptyList(run.cacheReads)
       /\ run.pc \notin {"idle", "scan", "detect"}
            => /\ run.changes.added_files = run.python_files
               /\ files_to_analyze(run.changes) = run.python_files
               /\ IsEmptyList(run.changes.unchanged_files)
               /\ IsEmptyList(run.changes.modified_files)
               /\ Range(run.parseLog) \subseteq Range(run.python_files)
       /\ run.pc \in {"analyze", "merge", "synthesize", "update", "generate", "done"}
            => run.parseLog = run.python_files
       /\ Synthesized => run.all_summaries = run.new_summaries

\* A forced run over files that the metadata on disk records with their
\* current hashes and with cached summaries, carried to its end.
C11_Witness ==
    /\ run.force
    /\ run.pc = "done"
    /\ run.ended = "generated"
    /\ run.metaBefore # None
    /\ Len(run.python_files) = MaxPaths
    /\ \A f \in Range(run.python_files) : CachedBefore(f) # None
    /\ run.parseLog = run.python_files
    /\ Len(run.all_summaries) = MaxPaths

\* ---------------------------------------------------------------------
\* Order of the report lists (specification Spec)
\* ---------------------------------------------------------------------
\* Ascending in the lexicographic order of paths (lists hold no duplicates).
IsSorted(l) == \A i, j \in DOMAIN l : i < j => l[i] <= l[j]

\* C12: the four lists of every report detect_changes returns are sorted,
\* for every order of current_files, with prior metadata and without.
C12_ReportListsSorted ==
    (last.op = "detect_changes" /\ last.outcome = "returned")
    => /\ IsSorted(last.report.added_files)
       /\ IsSorted(last.report.modified_files)
       /\ IsSorted(last.report.deleted_files)
       /\ IsSorted(last.report.unchanged_files)

\* ---------------------------------------------------------------------
\* Properties of the analyzer (specifications SpecAnalyzer, SpecSelect)
\* ---------------------------------------------------------------------
\* An analyze_module call is over (it returned or it raised).
ModuleCallOver ==
    analysis.op = "analyze_module" /\ analysis.pc \in {"returned", "raised"}

\* The service answered with a text.
AnsweredText == analysis.reply.kind = "content" /\ analysis.reply.content # None

\* Texts that are not JSON, whatever is stripped from them.
NotJsonAnswers == {<< >>, << "w", Ws, "w" >>, << "{", "purpose", ":", Q, "w" >>}

\* The answer, cleaned the way the generation cleans it, does not decode.
NotJsonAfterNormalization ==
    /\ AnsweredText
    /\ \/ analysis.reply.content[1] \in NotJsonAnswers
       \/ json_loads(Normalize(analysis.generation, analysis.reply.content[1])) = None

\* C13: when the LLM call raised, or answered a text that is not valid JSON
\* once normalized, analyze_module returns the fallback summary: the path of
\* the module, the sentinel purpose of the generation ("N/A" in analyzer.py,
\* "No purpose provided" in analyzer_self.py), no responsibilities, no key
\* components, and the imports of the module as dependencies.
C13_FallbackSummary ==
    (ModuleCallOver /\ (analysis.reply.kind = "exception" \/ NotJsonAfterNormalization))
    => /\ analysis.result.outcome = "returned"
       /\ analysis.result.value.file_path = analysis.parsed_file.file_path
       /\ analysis.result.value.purpose =
             JStr(<< IF analysis.generation = "analyzer"
                     THEN "N/A" ELSE "No purpose provided" >>)
       /\ analysis.result.value.responsibilities = JList(<< >>)
       /\ analysis.result.value.key_components = JList(<< >>)
       /\ analysis.result.value.dependencies = analysis.parsed_file.imports

\* analyzer_self.py after an exception of the service (it decodes "{}"), for
\* a module that has imports.
C13_Witness ==
    /\ ModuleCallOver
    /\ analysis.generation = "analyzer_self"
    /\ analysis.reply.kind = "exception"
    /\ analysis.result.value.purpose = JStr(<< "No purpose provided" >>)
    /\ analysis.result.value.dependencies = << "os" >>

\* C14: analyze_module and synthesize_project never raise, whatever the LLM
\* call produced.
C14_AnalyzerNeverRaises ==
    analysis.op \in {"analyze_module", "synthesize_project"}
    => /\ analysis.pc # "raised"
       /\ analysis.pc = "returned" => analysis.result.outcome = "returned"

\* The answer is the object d after an optional think block, bare or fenced.
AnswerIs(think, fence, d) == analysis.reply.content = Some(Wrapped(think, fence, d))

\* The summary carries the members of d and the imports of the module.
CarriesObject(d) ==
    /\ analysis.result.outcome = "returned"
    /\ \A k \in DOMAIN d : analysis.result.value[k] = d[k]
    /\ analysis.result.value.dependencies = analysis.parsed_file.imports

SurvivesCleaning(think, fence, d) ==
    /\ fence # "none" => ~Contains(DumpObject(d), Fence)
    /\ think # << >> => ~Contains(DumpObject(d), ThinkClose)

C18_ModelByScore ==
    analysis.op = "select_model_for_file"
    => LET score == analysis.parsed_file.n_classes + analysis.parsed_file.n_functions
           bound == IF analysis.generation = "analyzer" THEN 15 ELSE 20
       IN  /\ score <= 5 => analysis.model = SMALL_MODEL
           /\ (score >= 6 /\ score < bound) => analysis.model = MEDIUM_MODEL
           /\ score >= bound => analysis.model = LARGE_MODEL

\* ---------------------------------------------------------------------
\* Properties of the scanners (specification SpecScan)
\* ---------------------------------------------------------------------
TheFile == repo.file[1]

\* The file would pass every check that is not about its location.
PassesFileChecks(f) ==
    /\ Suffix(f.name) = ".py"
    /\ f.name \notin IgnoreFiles
    /\ ~f.large
    /\ ~f.binary

\* A directory between the scan root and the file is in the ignore set.
InsideIgnored(f) == \E i \in DOMAIN f.dirs : f.dirs[i] \in IgnoreDirs

\* A directory between the scan root and the file starts with a dot.
InsideHidden(f) == \E i \in DOMAIN f.dirs : StartsWithDot(f.dirs[i])

\* C16: matching is by exact path segment.  A file whose name contains an
\* ignored name D as a substring, none of whose directories under the scan
\* root is ignored (or hidden), is included by scan_project and by
\* RepositoryScanner; a file inside a directory named exactly D, at any depth
\* under the scan root, is excluded by both.
C16_SegmentMatch ==
    repo.pc = "both"
    => /\ (/\ \E D \in IgnoreDirs : SubstringOf(D, TheFile.name)
           /\ PassesFileChecks(TheFile)
           /\ ~InsideIgnored(TheFile)
           /\ ~InsideHidden(TheFile))
          => /\ repo.python_files = << RelativePath(TheFile) >>
             /\ repo.all_files = << RelativePath(TheFile) >>
       /\ InsideIgnored(TheFile)
          => /\ repo.python_files = << >>
             /\ repo.all_files = << >>

\* C17: RepositoryScanner excludes a file for its location only if a
\* directory between the scan root and the file is in the ignore set or
\* starts with a dot: a file that passes the other checks and has no such
\* directory is found, whatever the scan root and the directories above it
\* are called.
C17_OnlyAncestorsBelowRoot ==
    (repo.pc \in {"found", "both"} /\ PassesFileChecks(TheFile))
    => (repo.all_files = << >>
           => (InsideIgnored(TheFile) \/ InsideHidden(TheFile)))

\* ---------------------------------------------------------------------
\* Properties of parameter extraction (specification SpecParams)
\* ---------------------------------------------------------------------
\* C19: with P regular parameters and D <= P default expressions, the first
\* P - D parameters have no default and the last D have the defaults in
\* order; *name and then **name, when declared, follow all of them.
C19_DefaultsAlignedRight ==
    (/\ extraction.pc = "extracted"
     /\ Len(extraction.args.defaults) <= Len(extraction.args.args))
    => LET a == extraction.args
           r == extraction.parameters
           P == Len(a.args)
           D == Len(a.defaults)
           V == IF a.vararg # None THEN 1 ELSE 0
           K == IF a.kwarg # None THEN 1 ELSE 0
       IN  /\ Len(r) = P + V + K
           /\ \A i \in 1..P : r[i].name = << "", a.args[i].arg >>
           /\ \A i \in 1..(P - D) : r[i].default_value = None
           /\ \A k \in 1..D :
                 r[P - D + k].default_value = Some(node_to_string(a.defaults[k]))
           /\ V = 1 => /\ r[P + 1].name = << "*", a.vararg[1].arg >>
                       /\ r[P + 1].default_value = None
           /\ K = 1 => /\ r[P + V + 1].name = << "**", a.kwarg[1].arg >>
                       /\ r[P + V + 1].default_value = None

\* Three parameters, two defaults, *args and **kwargs.
C19_Witness ==
    /\ extraction.pc = "extracted"
    /\ Len(extraction.args.args) = 3
    /\ Len(extraction.args.defaults) = 2
    /\ extraction.args.vararg # None
    /\ extraction.args.kwarg # None
    /\ Len(extraction.parameters) = 5
    /\ extraction.parameters[1].default_value = None
    /\ extraction.parameters[2].default_value = Some(node_to_string(1))
    /\ extraction.parameters[3].default_value = Some(node_to_string(2))
    /\ extraction.parameters[5].name = << "**", "kwargs" >>

\* ---------------------------------------------------------------------
\* Properties under persistence failures (specification SpecFault)
\* ---------------------------------------------------------------------
\* Every file given to the last update_metadata exists and can be hashed, so
\* that the call reaches save.
ReachesSave ==
    \A f \in Range(last.current_files) : stat_size(f) # None /\ hash_file(f) # None

\* C20: with a metadata file that exists but cannot be read or parsed,
\* detect_changes returns and reports every current file as added, nothing
\* else; and an update_metadata whose save fails (read-only or full disk)
\* returns without an exception.
C20_PersistenceFailuresRecovered ==
    /\ (last.op = "detect_changes" /\ metaFile = Some(Unreadable))
       => /\ load = None
          /\ last.outcome = "returned"
          /\ last.report.added_files = last.current_files
          /\ IsEmptyList(last.report.modified_files)
          /\ IsEmptyList(last.report.deleted_files)
          /\ IsEmptyList(last.report.unchanged_files)
    /\ (last.op = "update_metadata" /\ disk # "ok" /\ ReachesSave)
       => last.outcome = "returned"

\* A save that failed half way on a full disk left an unreadable file, and
\* the next detect_changes reported all the files as added.
C20_Witness ==
    /\ last.op = "detect_changes"
    /\ disk = "full"
    /\ metaFile = Some(Unreadable)
    /\ Len(last.current_files) = MaxPaths
    /\ last.report.added_files = last.current_files

\* C21: a file that cannot be hashed (missing or unreadable at the path given)
\* never makes the change detection raise: detect_changes and update_metadata
\* return for every list of files, whether or not the file that cannot be
\* hashed is tracked in the stored metadata.
C21_UnhashableNeverRaises ==
    last.op \in {"detect_changes", "update_metadata"}
    => last.outcome = "returned"

\* The module list of the run: the paths of parsed_files, in order.
ModuleList == [k \in DOMAIN run.parsed_files |-> run.parsed_files[k].file_path]

IsPrefix(s, t) == Len(s) <= Len(t) /\ \A k \in DOMAIN s : s[k] = t[k]

\* C22: in a full pipeline run (main.py, or main_v2.py with changes) the LLM
\* calls made so far are the module calls of a prefix of the module list, in
\* its order and one per module, followed by at most one synthesis call; the
\* synthesis call comes only after the call of every module, no module call
\* follows it, and document generation starts only after one synthesis call
\* has returned.
C22_LlmCallOrder ==
    /\ IsPrefix(run.analyzeLog, ModuleList)
    /\ run.synthCalls <= 1
    /\ run.synthCalls = 1 => run.analyzeLog = ModuleList
    /\ run.pc \in {"parse", "main_parse"} => run.analyzeLog = << >>
    /\ (run.pc \in {"update", "generate", "main_generate"} \/ run.ended = "generated")
       => run.synthCalls = 1

C22_Witness ==
    /\ run.ended = "generated"
    /\ Len(ModuleList) = MaxPaths
    /\ run.analyzeLog = ModuleList
    /\ run.synthCalls = 1
    /\ run.metaWrites = 0

\* A cached run (main_v2, not forced) that detected changes and ran to its end.
CachedRunEnded ==
    /\ run.pc = "done"
    /\ run.ended = "generated"
    /\ run.metaWrites > 0
    /\ ~run.force
    /\ has_changes(run.changes)

\* C23: during one cached run that detects changes the metadata file is read
\* exactly once (at the start of the run) and written exactly once (at its
\* end); stated for the runs that found a metadata file, whose every
\* store.load() opens and reads it.
C23_ReadOnceWrittenOnce ==
    (CachedRunEnded /\ run.metaBefore # None)
    => (run.metaReads = 1 /\ run.metaWrites = 1)

\* Racer r saved, and the other racer has not saved after it.
LastSaver(r) ==
    /\ racers[r].pc = "done"
    /\ racers[r].outcome = "returned"
    /\ (racers[Other(r)].pc = "done" /\ racers[Other(r)].outcome = "returned")
       => racers[r].savedLast

\* C24: two cached runs on one project root are not synchronized: after the
\* save of either the metadata file holds the entries of that run alone, its
\* own files with its own summaries, so every entry the other run saved in
\* the meantime is overwritten or pruned; and the state in which a run loaded
\* before the other's save and saved after it is reached (C24_Witness), which
\* a lock around load-modify-save would exclude.
C24_LastSaveWins ==
    \A r \in Racers :
        LastSaver(r)
        => /\ load # None
           /\ DOMAIN load[1].files = Range(racers[r].analyzed_files)
           /\ \A f \in DOMAIN load[1].files :
                 load[1].files[f].summary = Some(SummaryOf(f, r))

\* The lost update: racer r loaded before the other saved and saved after it,
\* and a file that exists and that the other run recorded has no entry.
C24_Witness ==
    \E r \in Racers :
        /\ LastSaver(r)
        /\ racers[r].loadedFirst
        /\ racers[r].savedLast
        /\ \E f \in Range(racers[Other(r)].analyzed_files) :
              /\ f \notin Range(racers[r].analyzed_files)
              /\ files[f] # None
              /\ f \notin DOMAIN load[1].files

RECURSIVE TreeListing(_, _)
\* The files the tree lists: each file name of each node, with the
\* directories from the root node down to that node.
TreeListing(node, dirs) ==
    {[dirs |-> dirs, name |-> node.files[k]] : k \in DOMAIN node.files}
    \cup UNION {TreeListing(node.children[k], Append(dirs, node.children[k].name)) :
                   k \in DOMAIN node.children}

\* The subdirectories that contribute a file of the flat list.
ContributingDirs(flat) ==
    UNION {{SubSeq(flat[k].dirs, 1, n) : n \in 1..Len(flat[k].dirs)} :
              k \in DOMAIN flat}

\* C25: after RepositoryScanner.scan() the tree and the flat list agree: the
\* files listed in the tree nodes, each under its parent directory, are
\* exactly the files of all_files, and total_directories is the root plus the
\* subdirectories that contribute such a file.
C25_TreeAgreesWithList ==
    repo.pc \in {"found", "both"}
    => /\ TreeListing(repo.root_node[1], << >>) = Range(repo.all_files)
       /\ repo.total_directories =
              1 + Cardinality(ContributingDirs(repo.all_files))

\* C26: for every file entry a cached run persists with the summary this run
\* produced, the stored hash is the hash of the content that was parsed and
\* summarized, also when another process rewrites the file between the parse
\* phase and the metadata update.
C26_HashOfSummarizedContent ==
    (run.pc = "generate" /\ load # None)
    => \A k \in DOMAIN run.parsed_files :
          LET pf == run.parsed_files[k] IN
          (/\ pf.file_path \in DOMAIN load[1].files
           /\ load[1].files[pf.file_path].summary # None)
          => load[1].files[pf.file_path].hash = Sha256(pf.content)

\* C27: a save that fails while writing leaves the metadata of the last
\* successful save in the file: the load that follows returns what a load
\* before the failed save returned.
C27_FailedSaveKeepsLast ==
    [][(/\ last'.op = "update_metadata"
        /\ last'.outcome = "returned"
        /\ disk = "full")
       => load' = load]_vars

\* C28: when a non-forced cached run ends early as up to date on the
\* metadata an earlier run recorded, that earlier run completed document
\* generation: the metadata never records a run whose documents were not
\* written.
C28_UpToDateMeansDocumented ==
    (run.pc = "done" /\ run.ended = "up_to_date" /\ ~run.force /\ load # None)
    => output = Documents

\* C29: the detector hashes a file where it reads its size, at the path
\* resolved against the project root: whatever the working directory, when
\* every file of the list exists under the project root detect_changes and
\* update_metadata return, and update_metadata records for each file the
\* hash of its content under the root.
C29_HashedUnderProjectRoot ==
    (/\ last.op \in {"detect_changes", "update_metadata"}
     /\ \A f \in Range(last.current_files) : files[f] # None)
    => /\ last.outcome = "returned"
       /\ last.op = "update_metadata"
          => \A f \in Range(last.current_files) :
                load[1].files[f].hash = Sha256(files[f][1])

\* C30: detect_changes and get_cached_summary leave the persisted metadata
\* as it is: MetadataStore.load returns after the call what it returned
\* before; what load returns changes only in a call of update_metadata or of
\* clear.
C30_ReadsLeaveMetadata ==
    [][/\ last'.op \in {"detect_changes", "get_cached_summary"} => load' = load
       /\ load' # load => last'.op \in {"update_metadata", "clear"}]_vars

C30_Witness ==
    /\ last.op = "detect_changes"
    /\ last.outcome = "returned"
    /\ has_changes(last.report)
    /\ load # None
    /\ Cardinality(DOMAIN load[1].files) = MaxPaths
    /\ \E f \in DOMAIN load[1].files : load[1].files[f].summary # None

====
